---- MODULE Spec2Model ----
(***************************************************************************)
(* Model of the garden client/server protocol bridge:                      *)
(*   - server/request_handling.go: the per-container request handlers of   *)
(*     WardenServer, the eviction-timer pause/unpause discipline and the   *)
(*     Run/Attach payload streaming;                                       *)
(*   - client/connection/stream_handler.go: the join barrier of the        *)
(*     client's streamHandler;                                             *)
(*   - client/connection/connection.go: the decoding of container infos    *)
(*     and the calls do, doStream and doHijack, with Run and Attach.       *)
(***************************************************************************)
EXTENDS Integers, Sequences, FiniteSets, TLC

\* ------------------------------------------------------------------ bounds
\* requests the dispatcher hands to handlers in one behaviour
MaxRequests == 2
\* events a backend process stream holds before the backend closes it
MaxEvents == 3
\* frames the client's decoder is handed before the connection ends
MaxFrames == 2
\* chunks a hijacked output stream carries
MaxChunks == 2
\* process IDs a container info lists
MaxPids == 2
\* calls the client's connection makes in one behaviour
MaxCalls == 2
\* properties a property list of a message carries
MaxProps == 3

Workers == {"w1", "w2"}
\* "c1" is a container of the backend; "c2" is a handle the backend does not know
Handles == {"c1", "c2"}
ProcessIDs == {1, 2}
NoErr == "nil"

\* ------------------------------------------------------------------- state
VARIABLES
  containers,  \* backend: handles Lookup finds
  props,       \* backend: properties of each container
  infos,       \* backend: what container.Info() reports for each container
  graceTimes,  \* backend: grace time each container was created with
  live,        \* whether a Create made each handle and a Destroy removed it since
  timer,       \* bomberman: eviction timer of each handle
  pauses,      \* bomberman: Pause calls received per handle
  unpauses,    \* bomberman: Unpause calls received per handle
  overlapped,  \* whether two handlers have held the same handle paused at once
  bgStops,     \* goroutines "go container.Stop(kill)": [spawned, running] per handle
  limits,      \* backend: current limits of each container
  budget,      \* requests still to arrive
  pc,          \* position of each connection worker in its handler
  req,         \* request the worker is handling
  resp,        \* what the handler returned
  calls,       \* calls the current handler invocation made, in order
  limitArg,    \* argument of the Limit* mutator call of this invocation, if any
  snap,        \* limits of the request's container when the request arrived
  pid,         \* process ID of the Run/Attach being streamed
  stream,      \* events the backend channel still holds (closed after them)
  events,      \* every event the backend put on the channel
  writes,      \* frames handed to WriteTo(conn), in order
  connOk,      \* whether the connection still accepts writes
  conn         \* frames that reached the connection

\* client: one streamHandler
VARIABLES
  stdinGiven,  \* processIO.Stdin is not nil
  sinks,       \* which of processIO.Stdout / Stderr are not nil
  input,       \* payloads the decoder yields, from the first on
  stalls,      \* streams that block for ever once drained, instead of ending
  hijacked,    \* outcome of the sh.hijack call made for each output stream, if any
  drv,         \* position of the caller that sets the stream handler up
  wg,          \* counter of sh.wg
  copy,        \* state of the copyStream goroutine of each output stream
  source,      \* chunks the hijacked source still holds
  sink,        \* chunks written to the caller's sink
  stdinTask,   \* state of the goroutine started by streamIn
  frames,      \* frames the decoder will still yield
  wpc,         \* position of wait
  pending,     \* what wait is about to return
  result       \* what wait returned

\* client: the connection
VARIABLES
  cinfo,       \* what connection.Info returned for the response of each worker
  creq,        \* the Run or Attach the caller of the connection has made, if any
  cpc,         \* position of that Run or Attach
  proc,        \* what it returned
  hnum,        \* number of the do / doStream / doHijack call under way
  hkind,       \* which of the three it is
  hpc,         \* position of the call
  hconn,       \* connection the call runs on
  http,        \* HTTP response the call received
  hres,        \* what the call returned
  dials,       \* connections dialed so far
  users        \* calls that have used each connection

\* what the stream handler is given
given == <<stdinGiven, sinks, input, stalls>>
setup == <<given, hijacked>>

shVars == <<setup, drv, wg, copy, source, sink, stdinTask, frames, wpc,
            pending, result>>
callVars == <<hnum, hkind, hpc, hconn, http, hres, dials, users>>
apiVars == <<cinfo, creq, cpc, proc>>
connVars == <<apiVars, callVars>>

cliVars == <<shVars, connVars>>

backend == <<containers, props, infos, graceTimes, live>>

srvVars == <<backend, timer, pauses, unpauses, overlapped, bgStops, limits, budget, pc, req,
             resp, calls, limitArg, snap, pid, stream, events, writes, connOk, conn>>

vars == <<srvVars, cliVars>>

\* --------------------------------------------------------- wire primitives
\* an optional protobuf field: <<>> when absent, <<v>> when present
Opt(S) == {<<>>} \cup {<<v>> : v \in S}
Present(f) == f # <<>>
\* generated getter: the zero value when the field is absent
Get(f) == IF f = <<>> THEN 0 ELSE f[1]

ErrorResponse(e) == [tag |-> "error", err |-> e]
NoResponse == [tag |-> "none"]
NoRequest == [kind |-> "none", handle |-> "c1", background |-> FALSE,
              pid |-> 0, fields |-> <<>>]

\* ------------------------------------------------------------ environment
\* backend store behind Limit*/Current*Limits: a successful Limit* call makes
\* its argument the container's current limits
InitLimits ==
  [bandwidth |-> [rate |-> 91, burst |-> 92],
   memory    |-> [limitInBytes |-> 93],
   cpu       |-> [limitInShares |-> 94],
   disk      |-> [blockSoft |-> 81, blockHard |-> 82, inodeSoft |-> 83,
                  inodeHard |-> 84, byteSoft |-> 85, byteHard |-> 86]]

\* bomberman.Pause / bomberman.Unpause: a simple non-reentrant pair
BombermanPause(h) ==
  /\ timer' = [timer EXCEPT ![h] = "paused"]
  /\ pauses' = [pauses EXCEPT ![h] = @ + 1]
  /\ UNCHANGED unpauses

BombermanUnpause(h) ==
  /\ timer' = [timer EXCEPT ![h] = "running"]
  /\ unpauses' = [unpauses EXCEPT ![h] = @ + 1]
  /\ UNCHANGED <<pauses, overlapped>>

\* labels at which a worker is inside a call of a container method
InCall == {"in_CopyOut", "in_Stop", "in_CopyIn", "in_limit", "in_current", "in_NetIn",
           "in_NetOut", "in_Run", "in_Attach", "in_Info"}
\* labels at which the backend process stream of a Run/Attach is still consumed
Streaming == {"first", "stream"}

\* labels between the Pause of a handler and its deferred Unpause
Holding == {"body", "current", "defer"} \cup InCall \cup Streaming

\* number of operations on container h that have started and not completed
InFlight(h) ==
  Cardinality({w \in Workers : req[w].handle = h /\ pc[w] \in InCall \cup Streaming})
  + bgStops[h].running

\* ------------------------------------------------------- shared handler steps
Log(w, what) == calls' = [calls EXCEPT ![w] = Append(@, what)]
Goto(w, l) == pc' = [pc EXCEPT ![w] = l]
Respond(w, r) == resp' = [resp EXCEPT ![w] = r]

frameVars == <<pid, stream, events, writes, connOk, conn>>
bombVars == <<timer, pauses, unpauses, overlapped>>

\* worker w is between requests and a request may still arrive
Awaiting(w) == pc[w] \in {"idle", "done"} /\ budget > 0

\* a request arrives at worker w and its handler starts
Dispatch(w, r) ==
  /\ Awaiting(w)
  /\ budget' = budget - 1
  /\ req' = [req EXCEPT ![w] = r]
  /\ resp' = [resp EXCEPT ![w] = NoResponse]
  /\ calls' = [calls EXCEPT ![w] = <<>>]
  /\ limitArg' = [limitArg EXCEPT ![w] = <<>>]
  /\ snap' = [snap EXCEPT ![w] = limits[r.handle]]
  /\ pid' = [pid EXCEPT ![w] = 0]
  /\ stream' = [stream EXCEPT ![w] = <<>>]
  /\ events' = [events EXCEPT ![w] = <<>>]
  /\ writes' = [writes EXCEPT ![w] = <<>>]
  /\ conn' = [conn EXCEPT ![w] = <<>>]
  /\ Goto(w, "lookup")
  /\ UNCHANGED <<cliVars, backend, bombVars, bgStops, limits, connOk>>

\* Lookup with the deferred Unpause registered before the error check
Lookup_deferFirst(w) ==
  /\ pc[w] = "lookup"
  /\ Log(w, "Lookup")
  /\ IF req[w].handle \in containers
       THEN Goto(w, "pause") /\ UNCHANGED resp
       ELSE Goto(w, "defer") /\ Respond(w, ErrorResponse("ContainerNotFound"))
  /\ UNCHANGED <<cliVars, backend, bombVars, bgStops, limits, budget, req, limitArg, snap,
                 frameVars>>

\* Lookup whose error is not looked at: the handler goes on with the container
Lookup_errIgnored(w) ==
  /\ pc[w] = "lookup"
  /\ Log(w, "Lookup")
  /\ Goto(w, "pause")
  /\ UNCHANGED <<cliVars, backend, bombVars, bgStops, limits, budget, req, resp, limitArg, snap,
                 frameVars>>

\* container, err := s.backend.Lookup(handle); if err != nil { return nil, err }
Lookup(w) ==
  /\ pc[w] = "lookup"
  /\ Log(w, "Lookup")
  /\ IF req[w].handle \in containers
       THEN Goto(w, "pause") /\ UNCHANGED resp
       ELSE Goto(w, "done") /\ Respond(w, ErrorResponse("ContainerNotFound"))
  /\ UNCHANGED <<cliVars, backend, bombVars, bgStops, limits, budget, req, limitArg, snap,
                 frameVars>>

\* s.bomberman.Pause(container.Handle()); defer s.bomberman.Unpause(...)
Pause(w) ==
  /\ pc[w] = "pause"
  /\ BombermanPause(req[w].handle)
  /\ overlapped' = [overlapped EXCEPT ![req[w].handle] =
                      @ \/ \E v \in Workers \ {w} :
                             req[v].handle = req[w].handle /\ pc[v] \in Holding]
  /\ Log(w, "Pause")
  /\ Goto(w, "body")
  /\ UNCHANGED <<cliVars, backend, bgStops, limits, budget, req, resp, limitArg, snap,
                 frameVars>>

\* the deferred s.bomberman.Unpause(container.Handle()) runs and the handler returns
Unpause(w) ==
  /\ pc[w] = "defer"
  /\ BombermanUnpause(req[w].handle)
  /\ Log(w, "Unpause")
  /\ Goto(w, "done")
  /\ UNCHANGED <<cliVars, backend, bgStops, limits, budget, req, resp, limitArg, snap,
                 frameVars>>

\* the handler calls container method op and blocks in it
Call(w, from, op, to) ==
  /\ pc[w] = from
  /\ Log(w, op)
  /\ Goto(w, to)
  /\ UNCHANGED <<cliVars, backend, bombVars, bgStops, limits, budget, req, resp, limitArg,
                 snap, frameVars>>

\* Return with a plain Unpause at the end of the handler instead of a deferred
\* one: the early return on error skips it
Return_noDefer(w, from, err, to, r) ==
  /\ pc[w] = from
  /\ IF err # NoErr
       THEN Goto(w, "done") /\ Respond(w, ErrorResponse(err))
       ELSE Goto(w, to) /\ Respond(w, r)
  /\ UNCHANGED <<cliVars, backend, bombVars, bgStops, limits, budget, req, calls, limitArg,
                 snap, frameVars>>

\* a container method that only reports an error returns: on error the handler
\* returns (nil, err), otherwise it goes on at label to with response r
Return(w, from, err, to, r) ==
  /\ pc[w] = from
  /\ IF err # NoErr
       THEN Goto(w, "defer") /\ Respond(w, ErrorResponse(err))
       ELSE Goto(w, to) /\ Respond(w, r)
  /\ UNCHANGED <<cliVars, backend, bombVars, bgStops, limits, budget, req, calls, limitArg,
                 snap, frameVars>>


Errs == {NoErr, "backend error"}

\* ------------------------------------------------------------ container info
\* proto.String(v), proto.Uint64(v) make a present field <<v>>; GetState() and the
\* other string getters give "" for an absent field
GetString(f) == IF f = <<>> THEN "" ELSE f[1]
\* a field of a nested message through its getter: absent when the message is nil
Field(m, f) == IF m = <<>> THEN <<>> ELSE m[1][f]

\* a 64-bit value as its two 32-bit words: uint64(v) of a uint32 and uint32(x) of
\* a uint64
Uint64(v) == [hi |-> 0, lo |-> v]
Uint32(x) == x.lo

\* the orders in which "for key, val := range m" may visit the map m
Orders(m) ==
  {o \in [1..Cardinality(DOMAIN m) -> DOMAIN m] :
     \A i, j \in DOMAIN o : o[i] = o[j] => i = j}

\* the protocol.Property lists handleInfo may build from container.Properties()
PropertyLists(m) ==
  {[i \in DOMAIN o |-> [Key |-> <<o[i]>>, Value |-> <<m[o[i]]>>]] : o \in Orders(m)}

\* the protocol.InfoResponse handleInfo builds from info and the property list
InfoResponse(info, properties) ==
  [State |-> <<info.State>>,
   Events |-> info.Events,
   HostIp |-> <<info.HostIP>>,
   ContainerIp |-> <<info.ContainerIP>>,
   ExternalIp |-> <<>>,
   ContainerPath |-> <<info.ContainerPath>>,
   ProcessIds |-> [i \in DOMAIN info.ProcessIDs |-> Uint64(info.ProcessIDs[i])],
   Properties |-> properties,
   MappedPorts |-> <<>>,
   MemoryStat |-> <<
     [Cache |-> <<info.MemoryStat.Cache>>, Rss |-> <<info.MemoryStat.Rss>>,
      MappedFile |-> <<info.MemoryStat.MappedFile>>, Pgpgin |-> <<info.MemoryStat.Pgpgin>>,
      Pgpgout |-> <<info.MemoryStat.Pgpgout>>, Swap |-> <<info.MemoryStat.Swap>>,
      Pgfault |-> <<info.MemoryStat.Pgfault>>, Pgmajfault |-> <<info.MemoryStat.Pgmajfault>>,
      InactiveAnon |-> <<info.MemoryStat.InactiveAnon>>,
      ActiveAnon |-> <<info.MemoryStat.ActiveAnon>>,
      InactiveFile |-> <<info.MemoryStat.InactiveFile>>,
      ActiveFile |-> <<info.MemoryStat.ActiveFile>>,
      Unevictable |-> <<info.MemoryStat.Unevictable>>,
      HierarchicalMemoryLimit |-> <<info.MemoryStat.HierarchicalMemoryLimit>>,
      HierarchicalMemswLimit |-> <<info.MemoryStat.HierarchicalMemswLimit>>,
      TotalCache |-> <<info.MemoryStat.TotalCache>>,
      TotalRss |-> <<info.MemoryStat.TotalRss>>,
      TotalMappedFile |-> <<info.MemoryStat.TotalMappedFile>>,
      TotalPgpgin |-> <<info.MemoryStat.TotalPgpgin>>,
      TotalPgpgout |-> <<info.MemoryStat.TotalPgpgout>>,
      TotalSwap |-> <<info.MemoryStat.TotalSwap>>,
      TotalPgfault |-> <<info.MemoryStat.TotalPgfault>>,
      TotalPgmajfault |-> <<info.MemoryStat.TotalPgmajfault>>,
      TotalInactiveAnon |-> <<info.MemoryStat.TotalInactiveAnon>>,
      TotalActiveAnon |-> <<info.MemoryStat.TotalActiveAnon>>,
      TotalInactiveFile |-> <<info.MemoryStat.TotalInactiveFile>>,
      TotalActiveFile |-> <<info.MemoryStat.TotalActiveFile>>,
      TotalUnevictable |-> <<info.MemoryStat.TotalUnevictable>>]>>,
   CpuStat |-> <<
     [Usage |-> <<info.CPUStat.Usage>>, User |-> <<info.CPUStat.User>>,
      System |-> <<info.CPUStat.System>>]>>,
   DiskStat |-> <<
     [BytesUsed |-> <<info.DiskStat.BytesUsed>>, InodesUsed |-> <<info.DiskStat.InodesUsed>>]>>,
   BandwidthStat |-> <<
     [InRate |-> <<info.BandwidthStat.InRate>>, InBurst |-> <<info.BandwidthStat.InBurst>>,
      OutRate |-> <<info.BandwidthStat.OutRate>>,
      OutBurst |-> <<info.BandwidthStat.OutBurst>>]>>]

\* FlattenProperties that keeps the value of the first occurrence of a key
FlattenProperties_firstWins(list) ==
  [k \in {GetString(list[i].Key) : i \in DOMAIN list} |->
     GetString(list[CHOOSE i \in DOMAIN list :
                      /\ GetString(list[i].Key) = k
                      /\ \A j \in 1..(i - 1) : GetString(list[j].Key) # k].Value)]

\* properties[prop.GetKey()] = prop.GetValue() over the list, in list order
RECURSIVE FlattenProperties(_)
FlattenProperties(list) ==
  IF list = <<>> THEN <<>>
  ELSE LET m == FlattenProperties(SubSeq(list, 1, Len(list) - 1))
           key == GetString(list[Len(list)].Key)
       IN  [k \in DOMAIN m \cup {key} |->
              IF k = key THEN GetString(list[Len(list)].Value) ELSE m[k]]

\* the garden.ContainerInfo connection.Info builds from the decoded response res
ContainerInfo(res) ==
  [State |-> GetString(res.State),
   Events |-> res.Events,
   HostIP |-> GetString(res.HostIp),
   ContainerIP |-> GetString(res.ContainerIp),
   ExternalIP |-> GetString(res.ExternalIp),
   ContainerPath |-> GetString(res.ContainerPath),
   ProcessIDs |-> [i \in DOMAIN res.ProcessIds |-> Uint32(res.ProcessIds[i])],
   Properties |-> FlattenProperties(res.Properties),
   BandwidthStat |->
     [InRate |-> Get(Field(res.BandwidthStat, "InRate")),
      InBurst |-> Get(Field(res.BandwidthStat, "InBurst")),
      OutRate |-> Get(Field(res.BandwidthStat, "OutRate")),
      OutBurst |-> Get(Field(res.BandwidthStat, "OutBurst"))],
   CPUStat |->
     [Usage |-> Get(Field(res.CpuStat, "Usage")), User |-> Get(Field(res.CpuStat, "User")),
      System |-> Get(Field(res.CpuStat, "System"))],
   DiskStat |->
     [BytesUsed |-> Get(Field(res.DiskStat, "BytesUsed")),
      InodesUsed |-> Get(Field(res.DiskStat, "InodesUsed"))],
   MemoryStat |->
     [Cache |-> Get(Field(res.MemoryStat, "Cache")),
      Rss |-> Get(Field(res.MemoryStat, "Rss")),
      MappedFile |-> Get(Field(res.MemoryStat, "MappedFile")),
      Pgpgin |-> Get(Field(res.MemoryStat, "Pgpgin")),
      Pgpgout |-> Get(Field(res.MemoryStat, "Pgpgout")),
      Swap |-> Get(Field(res.MemoryStat, "Swap")),
      Pgfault |-> Get(Field(res.MemoryStat, "Pgfault")),
      Pgmajfault |-> Get(Field(res.MemoryStat, "Pgmajfault")),
      InactiveAnon |-> Get(Field(res.MemoryStat, "InactiveAnon")),
      ActiveAnon |-> Get(Field(res.MemoryStat, "ActiveAnon")),
      InactiveFile |-> Get(Field(res.MemoryStat, "InactiveFile")),
      ActiveFile |-> Get(Field(res.MemoryStat, "ActiveFile")),
      Unevictable |-> Get(Field(res.MemoryStat, "Unevictable")),
      HierarchicalMemoryLimit |-> Get(Field(res.MemoryStat, "HierarchicalMemoryLimit")),
      HierarchicalMemswLimit |-> Get(Field(res.MemoryStat, "HierarchicalMemswLimit")),
      TotalCache |-> Get(Field(res.MemoryStat, "TotalCache")),
      TotalRss |-> Get(Field(res.MemoryStat, "TotalRss")),
      TotalMappedFile |-> Get(Field(res.MemoryStat, "TotalMappedFile")),
      TotalPgpgin |-> Get(Field(res.MemoryStat, "TotalPgpgin")),
      TotalPgpgout |-> Get(Field(res.MemoryStat, "TotalPgpgout")),
      TotalSwap |-> Get(Field(res.MemoryStat, "TotalSwap")),
      TotalPgfault |-> Get(Field(res.MemoryStat, "TotalPgfault")),
      TotalPgmajfault |-> Get(Field(res.MemoryStat, "TotalPgmajfault")),
      TotalInactiveAnon |-> Get(Field(res.MemoryStat, "TotalInactiveAnon")),
      TotalActiveAnon |-> Get(Field(res.MemoryStat, "TotalActiveAnon")),
      TotalInactiveFile |-> Get(Field(res.MemoryStat, "TotalInactiveFile")),
      TotalActiveFile |-> Get(Field(res.MemoryStat, "TotalActiveFile")),
      TotalUnevictable |-> Get(Field(res.MemoryStat, "TotalUnevictable"))],
   MappedPorts |-> [i \in DOMAIN res.MappedPorts |->
                      [HostPort |-> Get(res.MappedPorts[i].HostPort),
                       ContainerPort |-> Get(res.MappedPorts[i].ContainerPort)]]]

\* statistics of an idle container, and of a busy one whose every statistic has
\* a value of its own
IdleStats ==
  [BandwidthStat |->
     [InRate |-> 0, InBurst |-> 0, OutRate |-> 0, OutBurst |-> 0],
   CPUStat |->
     [Usage |-> 0, User |-> 0, System |-> 0],
   DiskStat |->
     [BytesUsed |-> 0, InodesUsed |-> 0],
   MemoryStat |->
     [Cache |-> 0, Rss |-> 0, MappedFile |-> 0, Pgpgin |-> 0, Pgpgout |-> 0, Swap |-> 0,
      Pgfault |-> 0, Pgmajfault |-> 0, InactiveAnon |-> 0, ActiveAnon |-> 0,
      InactiveFile |-> 0, ActiveFile |-> 0, Unevictable |-> 0, HierarchicalMemoryLimit |-> 0,
      HierarchicalMemswLimit |-> 0, TotalCache |-> 0, TotalRss |-> 0, TotalMappedFile |-> 0,
      TotalPgpgin |-> 0, TotalPgpgout |-> 0, TotalSwap |-> 0, TotalPgfault |-> 0,
      TotalPgmajfault |-> 0, TotalInactiveAnon |-> 0, TotalActiveAnon |-> 0,
      TotalInactiveFile |-> 0, TotalActiveFile |-> 0, TotalUnevictable |-> 0]]

BusyStats ==
  [BandwidthStat |->
     [InRate |-> 201, InBurst |-> 202, OutRate |-> 203, OutBurst |-> 204],
   CPUStat |->
     [Usage |-> 205, User |-> 206, System |-> 207],
   DiskStat |->
     [BytesUsed |-> 208, InodesUsed |-> 209],
   MemoryStat |->
     [Cache |-> 210, Rss |-> 211, MappedFile |-> 212, Pgpgin |-> 213, Pgpgout |-> 214,
      Swap |-> 215, Pgfault |-> 216, Pgmajfault |-> 217, InactiveAnon |-> 218,
      ActiveAnon |-> 219, InactiveFile |-> 220, ActiveFile |-> 221, Unevictable |-> 222,
      HierarchicalMemoryLimit |-> 223, HierarchicalMemswLimit |-> 224, TotalCache |-> 225,
      TotalRss |-> 226, TotalMappedFile |-> 227, TotalPgpgin |-> 228, TotalPgpgout |-> 229,
      TotalSwap |-> 230, TotalPgfault |-> 231, TotalPgmajfault |-> 232,
      TotalInactiveAnon |-> 233, TotalActiveAnon |-> 234, TotalInactiveFile |-> 235,
      TotalActiveFile |-> 236, TotalUnevictable |-> 237]]

\* what the backend may report for a container, next to its statistics
InfoHeads ==
  {[State |-> "", HostIP |-> "", ContainerIP |-> "", ContainerPath |-> ""],
   [State |-> "active", HostIP |-> "10.254.0.1", ContainerIP |-> "10.254.0.2",
    ContainerPath |-> "/depot/c1"]}
InfoEvents == {<<>>, <<"out of memory">>, <<"out of memory", "oom">>}
ExternalIPs == {"", "192.0.2.7"}
PortMappings == {<<>>, <<[HostPort |-> 61001, ContainerPort |-> 8080]>>}
ProcessIDLists == UNION {[1..k -> ProcessIDs] : k \in 0..MaxPids}

BackendInfo(head, stats, evs, ext, pids, ports) ==
  [State |-> head.State, Events |-> evs, HostIP |-> head.HostIP,
   ContainerIP |-> head.ContainerIP, ExternalIP |-> ext,
   ContainerPath |-> head.ContainerPath, ProcessIDs |-> pids,
   BandwidthStat |-> stats.BandwidthStat, CPUStat |-> stats.CPUStat,
   DiskStat |-> stats.DiskStat, MemoryStat |-> stats.MemoryStat,
   MappedPorts |-> ports]

BackendInfos ==
  {BackendInfo(head, stats, evs, ext, pids, ports) :
     head \in InfoHeads, stats \in {IdleStats, BusyStats}, evs \in InfoEvents,
     ext \in ExternalIPs, pids \in ProcessIDLists, ports \in PortMappings}

\* property maps of a container
PropertyKeys == {"k1", "k2"}
PropertyValues == {"a", "b"}
PropertyMaps == UNION {[K -> PropertyValues] : K \in SUBSET PropertyKeys}

\* the container the backend holds unless a specification says otherwise
DefaultInfo ==
  BackendInfo(CHOOSE head \in InfoHeads : head.State = "active", BusyStats,
              <<"out of memory">>, "", <<1>>, <<>>)
DefaultProperties == [k \in {"k1"} |-> "a"]

\* ------------------------------------------------- handlers with one operation
handleCopyOut(w) ==
  /\ req[w].kind = "CopyOut"
  /\ \/ Lookup(w)
     \/ Pause(w)
     \/ Call(w, "body", "CopyOut", "in_CopyOut")
     \/ \E err \in Errs :
          Return(w, "in_CopyOut", err, "defer", [tag |-> "CopyOutResponse"])
     \/ Unpause(w)

\* SpawnStop without the go statement: the handler calls container.Stop itself
SpawnStop_sync(w) == Call(w, "body", "Stop", "in_Stop")

\* go container.Stop(kill): the goroutine is spawned and the handler goes on
SpawnStop(w) ==
  /\ pc[w] = "body"
  /\ bgStops' = [bgStops EXCEPT ![req[w].handle].spawned = @ + 1]
  /\ Goto(w, "defer")
  /\ Respond(w, [tag |-> "StopResponse"])
  /\ UNCHANGED <<cliVars, backend, bombVars, limits, budget, req, calls, limitArg, snap,
                 frameVars>>

handleStop(w) ==
  /\ req[w].kind = "Stop"
  /\ \/ Lookup(w)
     \/ Pause(w)
     \/ req[w].background /\ SpawnStop(w)
     \/ ~req[w].background /\ Call(w, "body", "Stop", "in_Stop")
     \/ \E err \in Errs :
          Return(w, "in_Stop", err, "defer", [tag |-> "StopResponse"])
     \/ Unpause(w)

\* the goroutine of a background Stop: it starts container.Stop, which later
\* returns; its error is dropped
backgroundStop(h) ==
  /\ \/ /\ bgStops[h].spawned > 0
        /\ bgStops' = [bgStops EXCEPT ![h] =
                         [spawned |-> @.spawned - 1, running |-> @.running + 1]]
     \/ /\ bgStops[h].running > 0
        /\ bgStops' = [bgStops EXCEPT ![h].running = @ - 1]
  /\ UNCHANGED <<cliVars, backend, bombVars, limits, budget, pc, req, resp, calls, limitArg,
                 snap, frameVars>>

handleCopyIn(w) ==
  /\ req[w].kind = "CopyIn"
  /\ \/ Lookup(w)
     \/ Pause(w)
     \/ Call(w, "body", "CopyIn", "in_CopyIn")
     \/ \E err \in Errs :
          Return(w, "in_CopyIn", err, "defer", [tag |-> "CopyInResponse"])
     \/ Unpause(w)

handleNetIn(w) ==
  /\ req[w].kind = "NetIn"
  /\ \/ Lookup(w)
     \/ Pause(w)
     \/ Call(w, "body", "NetIn", "in_NetIn")
     \/ \E err \in Errs :
          Return(w, "in_NetIn", err, "defer", [tag |-> "NetInResponse"])
     \/ Unpause(w)

handleNetOut(w) ==
  /\ req[w].kind = "NetOut"
  /\ \/ Lookup(w)
     \/ Pause(w)
     \/ Call(w, "body", "NetOut", "in_NetOut")
     \/ \E err \in Errs :
          Return(w, "in_NetOut", err, "defer", [tag |-> "NetOutResponse"])
     \/ Unpause(w)

handleInfo(w) ==
  /\ req[w].kind = "Info"
  /\ \/ Lookup(w)
     \/ Pause(w)
     \/ Call(w, "body", "Info", "in_Info")
     \/ Return(w, "in_Info", "backend error", "defer", NoResponse)
     \/ /\ pc[w] = "in_Info"
        /\ \E properties \in PropertyLists(props[req[w].handle]) :
             Return(w, "in_Info", NoErr, "defer",
                    [tag |-> "InfoResponse",
                     msg |-> InfoResponse(infos[req[w].handle], properties)])
     \/ Unpause(w)

\* ------------------------------------------------- Create / Destroy / List
\* time.Duration(n) * time.Second
Seconds(n) == [seconds |-> n]
\* s.containerGraceTime, the default the server was started with
containerGraceTime == Seconds(300)

\* a container made by a Create whose request carried the property list l
Made(l) == [state |-> "live", properties |-> l]

\* ContainerSpec that takes a grace time of 0 for an absent one
ContainerSpec_zeroIsAbsent(create) ==
  [Handle |-> GetString(create.Handle),
   GraceTime |-> IF Get(create.GraceTime) # 0 THEN Seconds(Get(create.GraceTime))
                 ELSE containerGraceTime,
   Properties |-> FlattenProperties(create.Properties)]

\* the warden.ContainerSpec handleCreate passes to s.backend.Create
ContainerSpec(create) ==
  [Handle |-> GetString(create.Handle),
   GraceTime |-> IF Present(create.GraceTime) THEN Seconds(Get(create.GraceTime))
                 ELSE containerGraceTime,
   Properties |-> FlattenProperties(create.Properties)]

\* s.backend.Create(spec) is called
CreateCall(w) ==
  /\ pc[w] = "lookup"
  /\ Log(w, "Create")
  /\ Goto(w, "in_Create")
  /\ UNCHANGED <<cliVars, backend, bombVars, bgStops, limits, budget, req, resp, limitArg,
                 snap, frameVars>>

\* s.backend.Create returns err, or a new container with handle h: the handle of
\* the spec, or one the backend makes up when the spec names none
CreateReturn(w, err, h) ==
  /\ pc[w] = "in_Create"
  /\ LET spec == ContainerSpec(req[w].fields) IN
     IF err # NoErr
       THEN /\ Goto(w, "done")
            /\ Respond(w, ErrorResponse(err))
            /\ UNCHANGED backend
       ELSE /\ h \notin containers
            /\ spec.Handle # "" => h = spec.Handle
            /\ containers' = containers \cup {h}
            /\ props' = [props EXCEPT ![h] = spec.Properties]
            /\ graceTimes' = [graceTimes EXCEPT ![h] = spec.GraceTime]
            /\ live' = [live EXCEPT ![h] = Made(req[w].fields.Properties)]
            /\ Goto(w, "strap")
            /\ Respond(w, [tag |-> "CreateResponse", handle |-> h])
            /\ UNCHANGED infos
  /\ UNCHANGED <<cliVars, bombVars, bgStops, limits, budget, req, calls, limitArg, snap,
                 frameVars>>

\* s.bomberman.Strap(container), and the handler returns the CreateResponse
Strap(w) ==
  /\ pc[w] = "strap"
  /\ timer' = [timer EXCEPT ![resp[w].handle] = "running"]
  /\ Log(w, "Strap")
  /\ Goto(w, "done")
  /\ UNCHANGED <<cliVars, backend, pauses, unpauses, overlapped, bgStops, limits, budget, req,
                 resp, limitArg, snap, frameVars>>

handleCreate(w) ==
  /\ req[w].kind = "Create"
  /\ \/ CreateCall(w)
     \/ \E err \in Errs, h \in Handles : CreateReturn(w, err, h)
     \/ Strap(w)

\* s.backend.Destroy(handle) is called
DestroyCall(w) ==
  /\ pc[w] = "lookup"
  /\ Log(w, "Destroy")
  /\ Goto(w, "in_Destroy")
  /\ UNCHANGED <<cliVars, backend, bombVars, bgStops, limits, budget, req, resp, limitArg,
                 snap, frameVars>>

\* DestroyReturn whose error is not looked at: the handler goes on to Defuse
DestroyReturn_errIgnored(w, err) ==
  /\ pc[w] = "in_Destroy"
  /\ IF err # NoErr
       THEN /\ err = "ContainerNotFound" <=> req[w].handle \notin containers
            /\ UNCHANGED backend
       ELSE /\ req[w].handle \in containers
            /\ containers' = containers \ {req[w].handle}
            /\ live' = [live EXCEPT ![req[w].handle] = [state |-> "destroyed"]]
            /\ UNCHANGED <<props, infos, graceTimes>>
  /\ Goto(w, "defuse")
  /\ UNCHANGED <<cliVars, bombVars, bgStops, limits, budget, req, resp, calls, limitArg, snap,
                 frameVars>>

\* s.backend.Destroy returns: an error (the only outcome for a handle the backend
\* does not know), or the container is gone
DestroyReturn(w, err) ==
  /\ pc[w] = "in_Destroy"
  /\ IF err # NoErr
       THEN /\ err = "ContainerNotFound" <=> req[w].handle \notin containers
            /\ Goto(w, "done")
            /\ Respond(w, ErrorResponse(err))
            /\ UNCHANGED backend
       ELSE /\ req[w].handle \in containers
            /\ containers' = containers \ {req[w].handle}
            /\ live' = [live EXCEPT ![req[w].handle] = [state |-> "destroyed"]]
            /\ Goto(w, "defuse")
            /\ UNCHANGED <<resp, props, infos, graceTimes>>
  /\ UNCHANGED <<cliVars, bombVars, bgStops, limits, budget, req, calls, limitArg, snap,
                 frameVars>>

\* s.bomberman.Defuse(handle), and the handler returns the DestroyResponse
Defuse(w) ==
  /\ pc[w] = "defuse"
  /\ timer' = [timer EXCEPT ![req[w].handle] = "none"]
  /\ Log(w, "Defuse")
  /\ Goto(w, "done")
  /\ Respond(w, [tag |-> "DestroyResponse"])
  /\ UNCHANGED <<cliVars, backend, pauses, unpauses, overlapped, bgStops, limits, budget, req,
                 limitArg, snap, frameVars>>

handleDestroy(w) ==
  /\ req[w].kind = "Destroy"
  /\ \/ DestroyCall(w)
     \/ \E err \in Errs \cup {"ContainerNotFound"} : DestroyReturn(w, err)
     \/ Defuse(w)

\* containerHasProperties without the comparison of the values
containerHasProperties_keysOnly(containerProps, properties) ==
  \A i \in DOMAIN properties : GetString(properties[i].Key) \in DOMAIN containerProps

\* every pair of properties is a pair of the container's properties
containerHasProperties(containerProps, properties) ==
  \A i \in DOMAIN properties :
    /\ GetString(properties[i].Key) \in DOMAIN containerProps
    /\ containerProps[GetString(properties[i].Key)] = GetString(properties[i].Value)

\* the handles of the containers of list cs that have the properties, in list order
RECURSIVE ListHandles(_, _)
ListHandles(cs, properties) ==
  IF cs = <<>> THEN <<>>
  ELSE (IF containerHasProperties(props[Head(cs)], properties) THEN <<Head(cs)>> ELSE <<>>)
         \o ListHandles(Tail(cs), properties)

\* s.backend.Containers() is called
ListCall(w) ==
  /\ pc[w] = "lookup"
  /\ Log(w, "Containers")
  /\ Goto(w, "in_List")
  /\ UNCHANGED <<cliVars, backend, bombVars, bgStops, limits, budget, req, resp, limitArg,
                 snap, frameVars>>

\* s.backend.Containers() returns err, or the containers in the order cs
ListReturn(w, err, cs) ==
  /\ pc[w] = "in_List"
  /\ Goto(w, "done")
  /\ Respond(w, IF err # NoErr THEN ErrorResponse(err)
                ELSE [tag |-> "ListResponse",
                      handles |-> ListHandles(cs, req[w].fields.Properties)])
  /\ UNCHANGED <<cliVars, backend, bombVars, bgStops, limits, budget, req, calls, limitArg,
                 snap, frameVars>>

handleList(w) ==
  /\ req[w].kind = "List"
  /\ \/ ListCall(w)
     \/ /\ pc[w] = "in_List"
        /\ \/ ListReturn(w, "backend error", <<>>)
           \/ \E cs \in Orders([h \in containers |-> h]) : ListReturn(w, NoErr, cs)

\* ------------------------------------------------------------ limit handlers
\* the handler calls the Limit* mutator op of the container with argument arg
LimitCall(w, op, arg) ==
  /\ pc[w] = "body"
  /\ Log(w, op)
  /\ limitArg' = [limitArg EXCEPT ![w] = <<arg>>]
  /\ Goto(w, "in_limit")
  /\ UNCHANGED <<cliVars, backend, bombVars, bgStops, limits, budget, req, resp, snap,
                 frameVars>>

\* the Limit* mutator returns: the backend has stored the limits unless it failed
LimitReturn(w, what, err) ==
  /\ pc[w] = "in_limit"
  /\ IF err # NoErr
       THEN /\ Goto(w, "defer")
            /\ Respond(w, ErrorResponse(err))
            /\ UNCHANGED limits
       ELSE /\ Goto(w, "current")
            /\ limits' = [limits EXCEPT ![req[w].handle][what] = limitArg[w][1]]
            /\ UNCHANGED resp
  /\ UNCHANGED <<cliVars, backend, bombVars, bgStops, budget, req, calls, limitArg, snap,
                 frameVars>>

\* limits, err := container.Current*Limits() is called
CurrentCall(w, from, op) ==
  /\ pc[w] = from
  /\ Log(w, op)
  /\ Goto(w, "in_current")
  /\ UNCHANGED <<cliVars, backend, bombVars, bgStops, limits, budget, req, resp, limitArg,
                 snap, frameVars>>

\* Current*Limits returns and the handler builds the response from its result
CurrentReturn(w, what, tag, err) ==
  /\ pc[w] = "in_current"
  /\ Goto(w, "defer")
  /\ Respond(w, IF err # NoErr THEN ErrorResponse(err)
                ELSE [tag |-> tag, limits |-> limits[req[w].handle][what]])
  /\ UNCHANGED <<cliVars, backend, bombVars, bgStops, limits, budget, req, calls, limitArg,
                 snap, frameVars>>

handleLimitBandwidth(w) ==
  /\ req[w].kind = "LimitBandwidth"
  /\ \/ Lookup(w)
     \/ Pause(w)
     \/ LimitCall(w, "LimitBandwidth",
                  [rate |-> Get(req[w].fields.Rate), burst |-> Get(req[w].fields.Burst)])
     \/ \E err \in Errs : LimitReturn(w, "bandwidth", err)
     \/ CurrentCall(w, "current", "CurrentBandwidthLimits")
     \/ \E err \in Errs : CurrentReturn(w, "bandwidth", "LimitBandwidthResponse", err)
     \/ Unpause(w)

handleLimitMemory(w) ==
  /\ req[w].kind = "LimitMemory"
  /\ \/ Lookup(w)
     \/ Pause(w)
     \/ /\ Present(req[w].fields.LimitInBytes)
        /\ LimitCall(w, "LimitMemory",
                     [limitInBytes |-> Get(req[w].fields.LimitInBytes)])
     \/ \E err \in Errs : LimitReturn(w, "memory", err)
     \/ /\ ~Present(req[w].fields.LimitInBytes)
        /\ CurrentCall(w, "body", "CurrentMemoryLimits")
     \/ CurrentCall(w, "current", "CurrentMemoryLimits")
     \/ \E err \in Errs : CurrentReturn(w, "memory", "LimitMemoryResponse", err)
     \/ Unpause(w)

\* blockHard with the two alias blocks in the other order
blockHard_aliasOrder(f) ==
  LET l0 == Get(f.BlockHard)
      l1 == IF Present(f.BlockLimit) THEN Get(f.BlockLimit) ELSE l0
  IN  IF Present(f.Block) THEN Get(f.Block) ELSE l1

\* hard limits of a disk request: the explicit *_hard field, overridden by the
\* bare alias, overridden in turn by the *_limit alias
blockHard(f) ==
  LET l0 == Get(f.BlockHard)
      l1 == IF Present(f.Block) THEN Get(f.Block) ELSE l0
  IN  IF Present(f.BlockLimit) THEN Get(f.BlockLimit) ELSE l1

inodeHard(f) ==
  LET l0 == Get(f.InodeHard)
      l1 == IF Present(f.Inode) THEN Get(f.Inode) ELSE l0
  IN  IF Present(f.InodeLimit) THEN Get(f.InodeLimit) ELSE l1

byteHard(f) ==
  LET l0 == Get(f.ByteHard)
      l1 == IF Present(f.Byte) THEN Get(f.Byte) ELSE l0
  IN  IF Present(f.ByteLimit) THEN Get(f.ByteLimit) ELSE l1

\* settingLimit without the six alias blocks
settingLimit_noAliases(f) ==
  \/ Present(f.BlockSoft) \/ Present(f.BlockHard)
  \/ Present(f.InodeSoft) \/ Present(f.InodeHard)
  \/ Present(f.ByteSoft) \/ Present(f.ByteHard)

settingLimit(f) ==
  \/ Present(f.BlockSoft) \/ Present(f.BlockHard)
  \/ Present(f.InodeSoft) \/ Present(f.InodeHard)
  \/ Present(f.ByteSoft) \/ Present(f.ByteHard)
  \/ Present(f.Block) \/ Present(f.BlockLimit)
  \/ Present(f.Inode) \/ Present(f.InodeLimit)
  \/ Present(f.Byte) \/ Present(f.ByteLimit)

\* the warden.DiskLimits the handler passes to container.LimitDisk
DiskLimits(f) ==
  [blockSoft |-> Get(f.BlockSoft), blockHard |-> blockHard(f),
   inodeSoft |-> Get(f.InodeSoft), inodeHard |-> inodeHard(f),
   byteSoft  |-> Get(f.ByteSoft),  byteHard  |-> byteHard(f)]

handleLimitDisk(w) ==
  /\ req[w].kind = "LimitDisk"
  /\ \/ Lookup(w)
     \/ Pause(w)
     \/ /\ settingLimit(req[w].fields)
        /\ LimitCall(w, "LimitDisk", DiskLimits(req[w].fields))
     \/ \E err \in Errs : LimitReturn(w, "disk", err)
     \/ /\ ~settingLimit(req[w].fields)
        /\ CurrentCall(w, "body", "CurrentDiskLimits")
     \/ CurrentCall(w, "current", "CurrentDiskLimits")
     \/ \E err \in Errs : CurrentReturn(w, "disk", "LimitDiskResponse", err)
     \/ Unpause(w)

handleLimitCpu(w) ==
  /\ req[w].kind = "LimitCpu"
  /\ \/ Lookup(w)
     \/ Pause(w)
     \/ /\ Present(req[w].fields.LimitInShares)
        /\ LimitCall(w, "LimitCPU",
                     [limitInShares |-> Get(req[w].fields.LimitInShares)])
     \/ \E err \in Errs : LimitReturn(w, "cpu", err)
     \/ /\ ~Present(req[w].fields.LimitInShares)
        /\ CurrentCall(w, "body", "CurrentCPULimits")
     \/ CurrentCall(w, "current", "CurrentCPULimits")
     \/ \E err \in Errs : CurrentReturn(w, "cpu", "LimitCpuResponse", err)
     \/ Unpause(w)


\* ------------------------------------------------------------- Run / Attach
Sources == {"ProcessStreamSourceStdout", "ProcessStreamSourceStderr",
            "ProcessStreamSourceStdin"}
Data == {"a", "b"}
ExitStatuses == {0, 1}

\* warden.ProcessStream values the backend may put on the channel
DataEvents == [source : Sources, data : Data, exitStatus : {<<>>}]
ExitEvents == [source : {"ProcessStreamSourceStdout"}, data : {""},
               exitStatus : {<<s>> : s \in ExitStatuses}]
Events == DataEvents \cup ExitEvents

\* the channels of at most n events, closed by the backend after the last one
Streams(n) == UNION {[1..k -> Events] : k \in 0..n}

\* payloadSource with the stdin case missing: the variable keeps the value of
\* the first enum constant
payloadSource_noStdin(src) ==
  CASE src = "ProcessStreamSourceStdout" -> "ProcessPayload_stdout"
    [] src = "ProcessStreamSourceStderr" -> "ProcessPayload_stderr"
    [] OTHER -> "ProcessPayload_stdout"

\* switch payload.Source { case ...Stdout: ..._stdout ... }
payloadSource(src) ==
  CASE src = "ProcessStreamSourceStdout" -> "ProcessPayload_stdout"
    [] src = "ProcessStreamSourceStderr" -> "ProcessPayload_stderr"
    [] src = "ProcessStreamSourceStdin"  -> "ProcessPayload_stdin"

\* protocol.ProcessPayload frames
InitialFrame(p) == [processId |-> p, source |-> <<>>, data |-> <<>>, exitStatus |-> <<>>]
DataFrame(p, ev) == [processId |-> p, source |-> <<payloadSource(ev.source)>>,
                     data |-> <<ev.data>>, exitStatus |-> <<>>]
ExitFrame(p, ev) == [processId |-> p, source |-> <<>>, data |-> <<>>,
                     exitStatus |-> <<ev.exitStatus[1]>>]

\* protocol.Messages(frame).WriteTo(conn): the error of WriteTo is not looked at
WriteTo(w, frame) ==
  /\ writes' = [writes EXCEPT ![w] = Append(@, frame)]
  /\ conn' = [conn EXCEPT ![w] = IF connOk[w] THEN Append(@, frame) ELSE @]
  /\ UNCHANGED connOk

\* streamProcessToConnection that keeps the exit payload and goes on with the loop
streamProcessToConnection_noReturn(w) ==
  /\ pc[w] = "stream"
  /\ IF stream[w] = <<>>
       THEN /\ IF resp[w].tag = "ProcessPayload" THEN UNCHANGED resp
                                                 ELSE Respond(w, [tag |-> "nil"])
            /\ Goto(w, "defer")
            /\ UNCHANGED <<stream, writes, conn, connOk>>
       ELSE IF Present(Head(stream[w]).exitStatus)
         THEN /\ Respond(w, [tag |-> "ProcessPayload",
                             frame |-> ExitFrame(pid[w], Head(stream[w]))])
              /\ stream' = [stream EXCEPT ![w] = Tail(@)]
              /\ UNCHANGED <<pc, writes, conn, connOk>>
         ELSE /\ WriteTo(w, DataFrame(pid[w], Head(stream[w])))
              /\ stream' = [stream EXCEPT ![w] = Tail(@)]
              /\ UNCHANGED <<pc, resp>>
  /\ UNCHANGED <<cliVars, backend, bombVars, bgStops, limits, budget, req, calls, limitArg,
                 snap, pid, events>>

\* streamProcessToConnection started with a go statement: the handler does not
\* wait for the stream and returns
streamProcessToConnection_go(w) ==
  /\ pc[w] = "stream"
  /\ Respond(w, [tag |-> "nil"])
  /\ Goto(w, "defer")
  /\ UNCHANGED <<cliVars, backend, bombVars, bgStops, limits, budget, req, calls, limitArg,
                 snap, frameVars>>

\* one turn of "for payload := range stream" and the return after the loop
streamProcessToConnection(w) ==
  /\ pc[w] = "stream"
  /\ IF stream[w] = <<>>
       THEN \* the channel is closed and drained: return nil
            /\ Respond(w, [tag |-> "nil"])
            /\ Goto(w, "defer")
            /\ UNCHANGED <<stream, writes, conn, connOk>>
       ELSE IF Present(Head(stream[w]).exitStatus)
         THEN /\ Respond(w, [tag |-> "ProcessPayload",
                             frame |-> ExitFrame(pid[w], Head(stream[w]))])
              /\ Goto(w, "defer")
              /\ UNCHANGED <<stream, writes, conn, connOk>>
         ELSE /\ WriteTo(w, DataFrame(pid[w], Head(stream[w])))
              /\ stream' = [stream EXCEPT ![w] = Tail(@)]
              /\ UNCHANGED <<pc, resp>>
  /\ UNCHANGED <<cliVars, backend, bombVars, bgStops, limits, budget, req, calls, limitArg,
                 snap, pid, events>>

\* StreamReturn with the first frame written before the error is looked at
StreamReturn_writeFirst(w, from, err, p, evs, to) ==
  /\ pc[w] = from
  /\ IF err # NoErr
       THEN /\ Goto(w, "defer")
            /\ Respond(w, ErrorResponse(err))
            /\ WriteTo(w, InitialFrame(p))
            /\ UNCHANGED <<pid, stream, events>>
       ELSE /\ Goto(w, to)
            /\ pid' = [pid EXCEPT ![w] = p]
            /\ stream' = [stream EXCEPT ![w] = evs]
            /\ events' = [events EXCEPT ![w] = evs]
            /\ UNCHANGED <<resp, writes, connOk, conn>>
  /\ UNCHANGED <<cliVars, backend, bombVars, bgStops, limits, budget, req, calls, limitArg,
                 snap>>

\* container.Run / container.Attach returns an error, or process ID p and a channel
\* on which the backend will send the events evs
StreamReturn(w, from, err, p, evs, to) ==
  /\ pc[w] = from
  /\ IF err # NoErr
       THEN /\ Goto(w, "defer")
            /\ Respond(w, ErrorResponse(err))
            /\ UNCHANGED <<pid, stream, events>>
       ELSE /\ Goto(w, to)
            /\ pid' = [pid EXCEPT ![w] = p]
            /\ stream' = [stream EXCEPT ![w] = evs]
            /\ events' = [events EXCEPT ![w] = evs]
            /\ UNCHANGED resp
  /\ UNCHANGED <<cliVars, backend, bombVars, bgStops, limits, budget, req, calls, limitArg,
                 snap, writes, connOk, conn>>

\* handleRun without the write of the first frame
WriteInitial_skip(w) ==
  /\ pc[w] = "first"
  /\ Goto(w, "stream")
  /\ UNCHANGED <<cliVars, backend, bombVars, bgStops, limits, budget, req, resp, calls,
                 limitArg, snap, frameVars>>

\* protocol.Messages(&protocol.ProcessPayload{ProcessId: processID}).WriteTo(conn)
WriteInitial(w) ==
  /\ pc[w] = "first"
  /\ WriteTo(w, InitialFrame(pid[w]))
  /\ Goto(w, "stream")
  /\ UNCHANGED <<cliVars, backend, bombVars, bgStops, limits, budget, req, resp, calls,
                 limitArg, snap, pid, stream, events>>

\* S: the channels the backend may hand back, P: the process IDs it may assign
handleRun(w, S, P) ==
  /\ req[w].kind = "Run"
  /\ \/ Lookup(w)
     \/ Pause(w)
     \/ Call(w, "body", "Run", "in_Run")
     \/ /\ pc[w] = "in_Run"
        /\ \/ StreamReturn(w, "in_Run", "backend error", 0, <<>>, "first")
           \/ \E p \in P, evs \in S : StreamReturn(w, "in_Run", NoErr, p, evs, "first")
     \/ WriteInitial(w)
     \/ streamProcessToConnection(w)
     \/ Unpause(w)

handleAttach(w, S) ==
  /\ req[w].kind = "Attach"
  /\ \/ Lookup(w)
     \/ Pause(w)
     \/ Call(w, "body", "Attach", "in_Attach")
     \/ /\ pc[w] = "in_Attach"
        /\ \/ StreamReturn(w, "in_Attach", "backend error", 0, <<>>, "stream")
           \/ \E evs \in S : StreamReturn(w, "in_Attach", NoErr, req[w].pid, evs, "stream")
     \/ streamProcessToConnection(w)
     \/ Unpause(w)

\* the peer goes away: writes to the connection fail from now on
BreakConn(w) ==
  /\ pc[w] \in {"in_Run", "in_Attach", "first", "stream"}
  /\ connOk[w]
  /\ connOk' = [connOk EXCEPT ![w] = FALSE]
  /\ UNCHANGED <<cliVars, backend, bombVars, bgStops, limits, budget, pc, req, resp, calls,
                 limitArg, snap, pid, stream, events, writes, conn>>

\* ----------------------------------------------------------------- requests
Request(k, h) == [kind |-> k, handle |-> h, background |-> FALSE, pid |-> 0,
                  fields |-> <<>>]

SimpleRequests == {Request(k, h) : k \in {"CopyOut", "CopyIn", "NetIn", "NetOut", "Info"},
                                   h \in Handles}
StopRequests == {[Request("Stop", h) EXCEPT !.background = b] :
                   h \in Handles, b \in BOOLEAN}
RunRequests == {Request("Run", h) : h \in Handles}
AttachRequests(P) == {[Request("Attach", h) EXCEPT !.pid = p] : h \in Handles, p \in P}

BandwidthFields == [Rate : {<<>>, <<0>>, <<41>>}, Burst : {<<>>, <<0>>, <<42>>}]
MemoryFields == [LimitInBytes : {<<>>, <<0>>, <<43>>}]
CpuFields == [LimitInShares : {<<>>, <<0>>, <<44>>}]
\* every combination of present and absent fields; a present field carries a value
\* of its own, and an alias may also carry 0
DiskFields ==
  [BlockSoft : Opt({11}), BlockHard : Opt({12}),
   Block : Opt({0, 13}), BlockLimit : Opt({0, 14}),
   InodeSoft : Opt({21}), InodeHard : Opt({22}),
   Inode : Opt({0, 23}), InodeLimit : Opt({0, 24}),
   ByteSoft : Opt({31}), ByteHard : Opt({32}),
   Byte : Opt({0, 33}), ByteLimit : Opt({0, 34})]
NoDiskFields ==
  [BlockSoft |-> <<>>, BlockHard |-> <<>>, Block |-> <<>>, BlockLimit |-> <<>>,
   InodeSoft |-> <<>>, InodeHard |-> <<>>, Inode |-> <<>>, InodeLimit |-> <<>>,
   ByteSoft |-> <<>>, ByteHard |-> <<>>, Byte |-> <<>>, ByteLimit |-> <<>>]

LimitRequestsOf(k, H, F) == {[Request(k, h) EXCEPT !.fields = f] : h \in H, f \in F}

\* the limit requests with their whole field space
LimitRequests ==
  LimitRequestsOf("LimitBandwidth", {"c1"}, BandwidthFields)
    \cup LimitRequestsOf("LimitMemory", {"c1"}, MemoryFields)
    \cup LimitRequestsOf("LimitCpu", {"c1"}, CpuFields)
    \cup LimitRequestsOf("LimitDisk", {"c1"}, DiskFields)

\* one request without and one with a limit field, per limit operation
FewLimitRequests ==
  LimitRequestsOf("LimitBandwidth", Handles, {[Rate |-> <<>>, Burst |-> <<>>],
                                     [Rate |-> <<41>>, Burst |-> <<42>>]})
    \cup LimitRequestsOf("LimitMemory", Handles, {[LimitInBytes |-> <<>>],
                                         [LimitInBytes |-> <<43>>]})
    \cup LimitRequestsOf("LimitCpu", Handles, {[LimitInShares |-> <<>>],
                                      [LimitInShares |-> <<44>>]})
    \cup LimitRequestsOf("LimitDisk", Handles, {NoDiskFields,
                                       [NoDiskFields EXCEPT !.Block = <<13>>]})

\* property lists of requests: none, one or two properties; a key may repeat
RequestPairs ==
  {[Key |-> <<"k1">>, Value |-> <<"a">>], [Key |-> <<"k1">>, Value |-> <<"b">>],
   [Key |-> <<"k2">>, Value |-> <<"a">>]}
RequestProperties ==
  {<<>>} \cup {<<p>> : p \in RequestPairs} \cup {<<p, q>> : p, q \in RequestPairs}

\* the property lists of at most n properties
PropertyListsUpTo(n) == UNION {[1..k -> RequestPairs] : k \in 0..n}

\* Create requests, with or without a handle, with the grace-time fields G
CreateRequests(G) ==
  {[Request("Create", "c1") EXCEPT
      !.fields = [Handle |-> hd, GraceTime |-> g, Properties |-> pl]] :
     hd \in Opt(Handles), g \in G, pl \in RequestProperties}
\* the grace-time field of a Create request: absent, 0, or a number of seconds
\* other than the server's default
GraceTimes == {<<>>, <<0>>, <<10>>}
DestroyRequests == {Request("Destroy", h) : h \in Handles}
ListRequests ==
  {[Request("List", "c1") EXCEPT !.fields = [Properties |-> pl]] : pl \in RequestProperties}

AllRequests == SimpleRequests \cup StopRequests \cup RunRequests \cup AttachRequests({1})
                 \cup FewLimitRequests

\* a process that only exits, one that writes and exits, and one whose channel the
\* backend closes without an exit status
ShortStreams ==
  LET out == [source |-> "ProcessStreamSourceStdout", data |-> "a", exitStatus |-> <<>>]
      exit == [source |-> "ProcessStreamSourceStdout", data |-> "", exitStatus |-> <<0>>]
  IN  {<<exit>>, <<out, exit>>, <<>>}

\* ------------------------------------------------- client: streamHandler
StreamTypes == {"stdout", "stderr"}

\* transport.ProcessPayload values the decoder may yield; Undecodable stands for
\* input on which decoder.Decode fails
Undecodable == [bad |-> TRUE, error |-> <<>>, exitStatus |-> <<>>]
Payload(e, x) == [bad |-> FALSE, error |-> e, exitStatus |-> x]
Payloads == {Payload(<<>>, <<>>), Payload(<<"boom">>, <<>>), Payload(<<>>, <<0>>),
             Payload(<<>>, <<3>>), Payload(<<"boom">>, <<3>>), Undecodable}
PayloadSeqs(n) == UNION {[1..k -> Payloads] : k \in 0..n}

NoResult == [status |-> 0, err |-> "none"]

\* a step of the stream handler: the server and the connection stay as they are
srvIdle == UNCHANGED <<srvVars, connVars>>

\* streamIn: nothing for a nil stdin, otherwise a goroutine copying stdin
streamIn ==
  /\ drv = "streamIn"
  /\ stdinTask' = IF stdinGiven THEN "copying" ELSE "none"
  /\ drv' = "stdout"
  /\ UNCHANGED <<setup, wg, copy, source, sink, frames, wpc, pending, result>>
  /\ srvIdle

\* the goroutine of streamIn: io.Copy ends, and the writer is closed or the error logged
stdinCopy ==
  /\ stdinTask = "copying"
  /\ stdinTask' = "done"
  /\ UNCHANGED <<setup, drv, wg, copy, source, sink, frames, wpc, pending,
                 result>>
  /\ srvIdle

\* attach with sh.wg.Add(1) before the error of connect is looked at
attach_addFirst(t, ok, n) ==
  /\ hijacked' = [hijacked EXCEPT ![t] = IF ok THEN "ok" ELSE "failed"]
  /\ wg' = wg + 1
  /\ source' = [source EXCEPT ![t] = IF ok THEN n ELSE @]

\* connect: sh.hijack(sh.streamID, route) fails, or yields a source of n chunks
\* attach: on success sh.wg.Add(1)
attach(t, ok, n) ==
  /\ hijacked' = [hijacked EXCEPT ![t] = IF ok THEN "ok" ELSE "failed"]
  /\ wg' = IF ok THEN wg + 1 ELSE wg
  /\ source' = [source EXCEPT ![t] = IF ok THEN n ELSE @]

\* streamOut(streamType, streamWriter), called for stream type t when the caller
\* is at label at; next is the label after it
streamOut(t, at, next, ok, n) ==
  /\ drv = at
  /\ IF ~sinks[t]
       THEN /\ drv' = next
            /\ UNCHANGED <<hijacked, wg, source, copy>>
       ELSE /\ attach(t, ok, n)
            /\ IF ok THEN /\ copy' = [copy EXCEPT ![t] = "copying"]
                          /\ drv' = next
                     ELSE /\ UNCHANGED copy
                          /\ drv' = "failed"
  /\ UNCHANGED <<given, sink, stdinTask, frames, wpc, pending, result>>
  /\ srvIdle

\* io.Copy(target, source) inside copyStream moves one chunk
copyChunk(t) ==
  /\ copy[t] = "copying"
  /\ source[t] > 0
  /\ source' = [source EXCEPT ![t] = @ - 1]
  /\ sink' = [sink EXCEPT ![t] = @ + 1]
  /\ UNCHANGED <<setup, drv, wg, copy, stdinTask, frames, wpc, pending, result>>
  /\ srvIdle

\* io.Copy returns: at the end of the source, or earlier on a read or write
\* error; on a source that stalls it stays in its Read
copyEnd(t) ==
  /\ copy[t] = "copying"
  /\ t \notin stalls
  /\ copy' = [copy EXCEPT ![t] = "copied"]
  /\ UNCHANGED <<setup, drv, wg, source, sink, stdinTask, frames, wpc, pending,
                 result>>
  /\ srvIdle

\* copyStream that ends without sh.wg.Done()
wgDone_noDone(t) ==
  /\ copy[t] = "copied"
  /\ copy' = [copy EXCEPT ![t] = "done"]
  /\ UNCHANGED <<setup, drv, wg, source, sink, stdinTask, frames, wpc, pending,
                 result>>
  /\ srvIdle

\* sh.wg.Done() at the end of copyStream
wgDone(t) ==
  /\ copy[t] = "copied"
  /\ copy' = [copy EXCEPT ![t] = "done"]
  /\ wg' = wg - 1
  /\ UNCHANGED <<setup, drv, source, sink, stdinTask, frames, wpc, pending,
                 result>>
  /\ srvIdle

copyStream(t) == copyChunk(t) \/ copyEnd(t) \/ wgDone(t)

\* the caller starts wait(decoder) once the streams are set up
startWait ==
  /\ drv = "wait"
  /\ drv' = "end"
  /\ wpc' = "loop"
  /\ UNCHANGED <<setup, wg, copy, source, sink, stdinTask, frames, pending,
                 result>>
  /\ srvIdle

\* waitDecode that looks at the exit status before the error
waitDecode_exitFirst ==
  /\ wpc = "loop"
  /\ frames # <<>> \/ "frames" \notin stalls
  /\ IF frames = <<>> \/ Head(frames).bad
       THEN /\ pending' = [status |-> 0, err |-> "connection: decode failed"]
            /\ wpc' = "wgwait"
            /\ UNCHANGED frames
       ELSE IF Present(Head(frames).exitStatus)
         THEN /\ pending' = [status |-> Head(frames).exitStatus[1], err |-> NoErr]
              /\ wpc' = "wgwait"
              /\ frames' = Tail(frames)
         ELSE IF Present(Head(frames).error)
           THEN /\ pending' = [status |-> 0, err |-> "connection: process error",
                               msg |-> Head(frames).error[1]]
                /\ wpc' = "wgwait"
                /\ frames' = Tail(frames)
           ELSE /\ frames' = Tail(frames)
                /\ UNCHANGED <<pending, wpc>>
  /\ UNCHANGED <<setup, drv, wg, copy, source, sink, stdinTask, result>>
  /\ srvIdle

\* one turn of the loop of wait: decode a payload and look at it; Decode fails
\* at the end of the frame stream, and blocks when the stream stalls
waitDecode ==
  /\ wpc = "loop"
  /\ frames # <<>> \/ "frames" \notin stalls
  /\ IF frames = <<>> \/ Head(frames).bad
       THEN /\ pending' = [status |-> 0, err |-> "connection: decode failed"]
            /\ wpc' = "wgwait"
            /\ UNCHANGED frames
       ELSE IF Present(Head(frames).error)
         THEN /\ pending' = [status |-> 0, err |-> "connection: process error",
                             msg |-> Head(frames).error[1]]
              /\ wpc' = "wgwait"
              /\ frames' = Tail(frames)
         ELSE IF Present(Head(frames).exitStatus)
           THEN /\ pending' = [status |-> Head(frames).exitStatus[1], err |-> NoErr]
                /\ wpc' = "wgwait"
                /\ frames' = Tail(frames)
           ELSE \* discard other payloads
                /\ frames' = Tail(frames)
                /\ UNCHANGED <<pending, wpc>>
  /\ UNCHANGED <<setup, drv, wg, copy, source, sink, stdinTask, result>>
  /\ srvIdle

\* wgWait without the sh.wg.Wait() before the return
wgWait_noWait ==
  /\ wpc = "wgwait"
  /\ wpc' = "returned"
  /\ result' = pending
  /\ UNCHANGED <<setup, drv, wg, copy, source, sink, stdinTask, frames,
                 pending>>
  /\ srvIdle

\* sh.wg.Wait() lets wait go on when the counter is zero, and wait returns
wgWait ==
  /\ wpc = "wgwait"
  /\ wg = 0
  /\ wpc' = "returned"
  /\ result' = pending
  /\ UNCHANGED <<setup, drv, wg, copy, source, sink, stdinTask, frames,
                 pending>>
  /\ srvIdle

wait == waitDecode \/ wgWait

\* ------------------------------------- client: do / doStream / doHijack
CallKinds == {"do", "doStream", "doHijack"}
StatusCodes == {199, 200, 204, 299, 300, 404, 500}
\* response bodies: two that json.Decode accepts for the result, two it does not
JSONBodies == {"{}", "{\"Handles\":[\"c1\"]}"}
Bodies == JSONBodies \cup {"", "unknown handle: c1"}
\* an HTTP response; readable is whether ioutil.ReadAll of its body succeeds
HttpResponses == [status : StatusCodes, body : Bodies, readable : BOOLEAN]
NoHttp == [status |-> 0]

\* error values
Nil == [type |-> "nil"]
\* Error{httpResp.StatusCode, string(errResponse)}
Error(code, message) == [type |-> "Error", StatusCode |-> code, Message |-> message]
\* fmt.Errorf("bad response: %s", httpResp.Status)
BadResponse(status) == [type |-> "errorString", text |-> "bad response", status |-> status]
\* errors of the calls below this code: CreateRequest, dial, Do, Decode
Failure(what) == [type |-> "failure", of |-> what]

\* what a call returns: an error, and a body stream, a decoded result, or a
\* connection with its reader
CallResult(err, body, res, c) ==
  [err |-> err, stream |-> body, res |-> res, conn |-> c, br |-> c]
NoCallResult == [err |-> [type |-> "none"]]

\* call k of the connection starts
BeginCall(k) ==
  /\ hpc \in {"idle", "returned"}
  /\ hnum < MaxCalls
  /\ hnum' = hnum + 1
  /\ hkind' = k
  /\ hpc' = "create"
  /\ hconn' = 0
  /\ http' = NoHttp
  /\ hres' = NoCallResult
  /\ UNCHANGED <<dials, users>>

\* the caller of the connection starts call k
StartCall(k) == BeginCall(k) /\ UNCHANGED <<apiVars, srvVars, shVars>>

\* the call returns r
ReturnCall(r) ==
  /\ hres' = r
  /\ hpc' = "returned"

\* transport.WriteMessage (do with a request) and c.req.CreateRequest: on an
\* error the call returns it
CreateRequest(failed) ==
  /\ hpc = "create"
  /\ IF failed THEN ReturnCall(CallResult(Failure("CreateRequest"), <<>>, <<>>, <<>>))
               ELSE hpc' = "send" /\ UNCHANGED hres
  /\ UNCHANGED <<hnum, hkind, hconn, http, dials, users, apiVars, srvVars, shVars>>

\* a connection is dialed for the call under way
Dial ==
  /\ dials' = dials + 1
  /\ hconn' = dials + 1
  /\ users' = [users EXCEPT ![dials + 1] = @ \cup {[call |-> hnum, kind |-> hkind]}]

\* c.noKeepaliveClient.Do(request): with keep-alives disabled the transport dials
\* a connection for the request; Do fails, or the response r arrives
clientDo(failed, r) ==
  /\ hpc = "send"
  /\ hkind \in {"do", "doStream"}
  /\ Dial
  /\ IF failed THEN ReturnCall(CallResult(Failure("Do"), <<>>, <<>>, <<>>)) /\ UNCHANGED http
               ELSE hpc' = "status" /\ http' = r /\ UNCHANGED hres
  /\ UNCHANGED <<hnum, hkind, apiVars, srvVars, shVars>>

\* if httpResp.StatusCode < 200 || httpResp.StatusCode > 299
StatusFailed(status) == status < 200 \/ status > 299

\* doStream whose check lets the statuses below 200 through
doStream_noLowerBound ==
  /\ hpc = "status"
  /\ hkind \in {"do", "doStream"}
  /\ IF http.status > 299
       THEN ReturnCall(CallResult(IF http.readable THEN Error(http.status, http.body)
                                  ELSE BadResponse(http.status), <<>>, <<>>, <<>>))
       ELSE IF hkind = "doStream"
         THEN ReturnCall(CallResult(Nil, <<http.body>>, <<>>, <<>>))
         ELSE hpc' = "decode" /\ UNCHANGED hres
  /\ UNCHANGED <<hnum, hkind, hconn, http, dials, users, apiVars, srvVars, shVars>>

\* the status check of doStream; doStream returns the body, and do then decodes it
doStream ==
  /\ hpc = "status"
  /\ hkind \in {"do", "doStream"}
  /\ IF StatusFailed(http.status)
       THEN ReturnCall(CallResult(IF http.readable THEN Error(http.status, http.body)
                                  ELSE BadResponse(http.status), <<>>, <<>>, <<>>))
       ELSE IF hkind = "doStream"
         THEN ReturnCall(CallResult(Nil, <<http.body>>, <<>>, <<>>))
         ELSE hpc' = "decode" /\ UNCHANGED hres
  /\ UNCHANGED <<hnum, hkind, hconn, http, dials, users, apiVars, srvVars, shVars>>

\* return json.NewDecoder(response).Decode(res)
do ==
  /\ hpc = "decode"
  /\ ReturnCall(IF http.body \in JSONBodies
                  THEN CallResult(Nil, <<>>, <<http.body>>, <<>>)
                  ELSE CallResult(Failure("Decode"), <<>>, <<>>, <<>>))
  /\ UNCHANGED <<hnum, hkind, hconn, http, dials, users, apiVars, srvVars, shVars>>

\* hijackDial that takes the connection dialed last when there is one
hijackDial_reuse(failed) ==
  /\ hpc = "send"
  /\ hkind = "doHijack"
  /\ IF failed
       THEN /\ ReturnCall(CallResult(Failure("dial"), <<>>, <<>>, <<>>))
            /\ UNCHANGED <<dials, hconn, users>>
       ELSE /\ IF dials = 0 THEN Dial
               ELSE /\ hconn' = dials
                    /\ users' = [users EXCEPT ![dials] = @ \cup {[call |-> hnum, kind |-> hkind]}]
                    /\ UNCHANGED dials
            /\ hpc' = "dialed"
            /\ UNCHANGED hres
  /\ UNCHANGED <<hnum, hkind, http, apiVars, srvVars, shVars>>

\* conn, err := c.dialer("tcp", "api")
hijackDial(failed) ==
  /\ hpc = "send"
  /\ hkind = "doHijack"
  /\ IF failed
       THEN /\ ReturnCall(CallResult(Failure("dial"), <<>>, <<>>, <<>>))
            /\ UNCHANGED <<dials, hconn, users>>
       ELSE /\ Dial
            /\ hpc' = "dialed"
            /\ UNCHANGED hres
  /\ UNCHANGED <<hnum, hkind, http, apiVars, srvVars, shVars>>

\* httpResp, err := client.Do(request) on the dialed connection
hijackDo(failed, r) ==
  /\ hpc = "dialed"
  /\ IF failed THEN ReturnCall(CallResult(Failure("Do"), <<>>, <<>>, <<>>)) /\ UNCHANGED http
               ELSE hpc' = "status" /\ http' = r /\ UNCHANGED hres
  /\ UNCHANGED <<hnum, hkind, hconn, dials, users, apiVars, srvVars, shVars>>

\* the status check of doHijack, and conn, br := client.Hijack()
hijackStatus ==
  /\ hpc = "status"
  /\ hkind = "doHijack"
  /\ ReturnCall(IF StatusFailed(http.status)
                  THEN CallResult(BadResponse(http.status), <<>>, <<>>, <<>>)
                  ELSE CallResult(Nil, <<>>, <<>>, <<hconn>>))
  /\ UNCHANGED <<hnum, hkind, hconn, http, dials, users, apiVars, srvVars, shVars>>

doHijack ==
  \/ \E failed \in BOOLEAN : hijackDial(failed)
  \/ hijackDo(TRUE, NoHttp)
  \/ hpc = "dialed" /\ \E r \in HttpResponses : r.readable /\ hijackDo(FALSE, r)
  \/ hijackStatus

\* ------------------------------------------------------ client: connection
NoInfo == [tag |-> "none"]
NoCall == [kind |-> "none", pid |-> 0]
NoProcess == [err |-> [type |-> "none"], process |-> <<>>]

\* connection.Info for the response worker w gave: c.do fails with the error of
\* the response, or the decoded InfoResponse is turned into a garden.ContainerInfo
Info(w) ==
  /\ pc[w] = "done"
  /\ req[w].kind = "Info"
  /\ cinfo[w] = NoInfo
  /\ cinfo' = [cinfo EXCEPT ![w] =
                 IF resp[w].tag = "error"
                   THEN [tag |-> "error", err |-> resp[w].err]
                   ELSE [tag |-> "ContainerInfo", info |-> ContainerInfo(resp[w].msg)]]
  /\ UNCHANGED <<srvVars, shVars, callVars, creq, cpc, proc>>

\* ------------------------------------------------- client: Run / Attach
\* transport.ProcessPayload values as Run sees them: ProcessID is 0 when the
\* payload names none
RunPayload(p, e, x) == [bad |-> FALSE, processId |-> p, error |-> e, exitStatus |-> x]
RunPayloads ==
  {RunPayload(p, <<>>, <<>>) : p \in {0} \cup ProcessIDs}
    \cup {RunPayload(1, <<>>, <<0>>), RunPayload(0, <<"boom">>, <<>>),
          [bad |-> TRUE, processId |-> 0, error |-> <<>>, exitStatus |-> <<>>]}

\* the Run and Attach calls a caller may make
ClientCalls == {[kind |-> "Run", pid |-> 0]} \cup {[kind |-> "Attach", pid |-> p] : p \in ProcessIDs}

\* responses to the hijack request of a Run or Attach
HijackResponses == {[status |-> c, body |-> "", readable |-> TRUE] : c \in {200, 404, 500}}

\* newProcess(id, conn): the process handle
newProcess(id, c) == [id |-> id, conn |-> c]

\* err := transport.WriteMessage(reqBody, spec); if err != nil { return nil, err }
writeMessage(failed) ==
  /\ cpc = "write"
  /\ IF failed THEN /\ proc' = [err |-> Failure("WriteMessage"), process |-> <<>>]
                    /\ cpc' = "returned"
               ELSE /\ cpc' = "hijack"
                    /\ UNCHANGED proc
  /\ UNCHANGED <<creq, cinfo, callVars, srvVars, shVars>>

\* conn, br, err := c.doHijack(...) is called
callHijack ==
  /\ cpc = "hijack"
  /\ BeginCall("doHijack")
  /\ cpc' = "in_hijack"
  /\ UNCHANGED <<creq, proc, cinfo, srvVars, shVars>>

\* doHijack has returned: if err != nil { return nil, err }; Attach then makes the
\* process handle from the process ID it was given
hijackReturn ==
  /\ cpc = "in_hijack"
  /\ hpc = "returned"
  /\ IF hres.err # Nil
       THEN /\ proc' = [err |-> hres.err, process |-> <<>>]
            /\ cpc' = "returned"
       ELSE IF creq.kind = "Run"
         THEN /\ cpc' = "first"
              /\ UNCHANGED proc
         ELSE /\ proc' = [proc EXCEPT !.process = <<newProcess(creq.pid, hres.conn)>>]
              /\ cpc' = "spawn"
  /\ UNCHANGED <<creq, cinfo, callVars, srvVars, shVars>>

\* decodeFirst that reads the process ID of the first payload and leaves the
\* payload to the decoder
decodeFirst_peek ==
  /\ cpc = "first"
  /\ frames # <<>> \/ "frames" \notin stalls
  /\ IF frames = <<>> \/ Head(frames).bad
       THEN /\ proc' = [err |-> Failure("Decode"), process |-> <<>>]
            /\ cpc' = "returned"
       ELSE /\ proc' = [proc EXCEPT
                          !.process = <<newProcess(Head(frames).processId, hres.conn)>>]
            /\ cpc' = "spawn"
  /\ UNCHANGED <<creq, cinfo, callVars, srvVars, shVars>>

\* err = decoder.Decode(firstResponse); if err != nil { return nil, err };
\* p := newProcess(firstResponse.ProcessID, conn)
decodeFirst ==
  /\ cpc = "first"
  /\ frames # <<>> \/ "frames" \notin stalls
  /\ IF frames = <<>> \/ Head(frames).bad
       THEN /\ proc' = [err |-> Failure("Decode"), process |-> <<>>]
            /\ cpc' = "returned"
            /\ UNCHANGED frames
       ELSE /\ proc' = [proc EXCEPT
                          !.process = <<newProcess(Head(frames).processId, hres.conn)>>]
            /\ frames' = Tail(frames)
            /\ cpc' = "spawn"
  /\ UNCHANGED <<creq, cinfo, callVars, srvVars, setup, drv, wg, copy, source, sink,
                 stdinTask, wpc, pending, result>>

\* go p.streamPayloads(decoder, processIO); return p, nil
goStreamPayloads ==
  /\ cpc = "spawn"
  /\ drv' = "streamIn"
  /\ proc' = [proc EXCEPT !.err = Nil]
  /\ cpc' = "returned"
  /\ UNCHANGED <<creq, cinfo, callVars, srvVars, setup, wg, copy, source, sink, stdinTask,
                 frames, wpc, pending, result>>

\* connection.Run
Run ==
  /\ creq.kind = "Run"
  /\ \/ \E failed \in BOOLEAN : writeMessage(failed)
     \/ callHijack
     \/ hijackReturn
     \/ decodeFirst
     \/ goStreamPayloads

\* connection.Attach
Attach ==
  /\ creq.kind = "Attach"
  /\ \/ callHijack
     \/ hijackReturn
     \/ goStreamPayloads

\* a server that answers the Info request of worker w with an InfoResponse whose
\* property list is properties; the list of a response may repeat a key
PeerInfo(w, properties) ==
  /\ req[w].kind = "Info"
  /\ pc[w] = "lookup"
  /\ Goto(w, "done")
  /\ Respond(w, [tag |-> "InfoResponse", msg |-> InfoResponse(DefaultInfo, properties)])
  /\ UNCHANGED <<cliVars, backend, bombVars, bgStops, limits, budget, req, calls, limitArg,
                 snap, frameVars>>

\* ----------------------------------------------------------- specifications
\* a server whose backend holds the containers cs with properties pr and info i,
\* and to which n requests will arrive
InitServerWith(n, cs, pr, i) ==
  /\ containers = cs
  /\ props = [h \in Handles |-> pr]
  /\ infos = [h \in Handles |-> i]
  /\ graceTimes = [h \in Handles |-> containerGraceTime]
  /\ live = [h \in Handles |-> IF h \in cs THEN Made(CHOOSE l \in PropertyLists(pr) : TRUE)
                                            ELSE [state |-> "never"]]
  /\ timer = [h \in Handles |-> IF h \in containers THEN "running" ELSE "none"]
  /\ pauses = [h \in Handles |-> 0]
  /\ unpauses = [h \in Handles |-> 0]
  /\ overlapped = [h \in Handles |-> FALSE]
  /\ bgStops = [h \in Handles |-> [spawned |-> 0, running |-> 0]]
  /\ limits = [h \in Handles |-> InitLimits]
  /\ budget = n
  /\ pc = [w \in Workers |-> "idle"]
  /\ req = [w \in Workers |-> NoRequest]
  /\ resp = [w \in Workers |-> NoResponse]
  /\ calls = [w \in Workers |-> <<>>]
  /\ limitArg = [w \in Workers |-> <<>>]
  /\ snap = [w \in Workers |-> InitLimits]
  /\ pid = [w \in Workers |-> 0]
  /\ stream = [w \in Workers |-> <<>>]
  /\ events = [w \in Workers |-> <<>>]
  /\ writes = [w \in Workers |-> <<>>]
  /\ connOk = [w \in Workers |-> TRUE]
  /\ conn = [w \in Workers |-> <<>>]

InitServer(n) == InitServerWith(n, {"c1"}, DefaultProperties, DefaultInfo)

\* a stream handler for the process I/O io and a decoder that will yield the
\* payloads fs; the streams st stall; the task that sets the handler up is at d
InitHandler(in, io, fs, st, d) ==
  /\ stalls = st
  /\ stdinGiven = in
  /\ sinks = io
  /\ input = fs
  /\ frames = fs
  /\ hijacked = [t \in StreamTypes |-> "none"]
  /\ drv = d
  /\ wg = 0
  /\ copy = [t \in StreamTypes |-> "none"]
  /\ source = [t \in StreamTypes |-> 0]
  /\ sink = [t \in StreamTypes |-> 0]
  /\ stdinTask = "none"
  /\ wpc = "idle"
  /\ pending = NoResult
  /\ result = NoResult

\* a connection that has made no call yet, and whose caller makes the Run or
\* Attach r
InitConnection(r) ==
  /\ creq = r
  /\ cpc = (CASE r.kind = "Run" -> "write" [] r.kind = "Attach" -> "hijack"
              [] OTHER -> "idle")
  /\ proc = NoProcess
  /\ cinfo = [w \in Workers |-> NoInfo]
  /\ hnum = 0
  /\ hkind = "none"
  /\ hpc = "idle"
  /\ hconn = 0
  /\ http = NoHttp
  /\ hres = NoCallResult
  /\ dials = 0
  /\ users = [c \in 1..MaxCalls |-> {}]

\* a stream handler whose caller has set nothing up yet, on a connection whose
\* caller makes no Run and no Attach
InitClientWith(in, io, fs, st) ==
  InitHandler(in, io, fs, st, "streamIn") /\ InitConnection(NoCall)

\* the same, with streams that all end
InitClient(in, io, fs) == InitClientWith(in, io, fs, {})

NoClient == InitClient(FALSE, [t \in StreamTypes |-> FALSE], <<>>)

\* every per-container handler, on two connections at once
Init == InitServer(MaxRequests) /\ NoClient

Next ==
  \/ \E w \in Workers :
       \/ Awaiting(w) /\ \E r \in AllRequests : Dispatch(w, r)
       \/ handleCopyOut(w)
       \/ handleStop(w)
       \/ handleCopyIn(w)
       \/ handleLimitBandwidth(w)
       \/ handleLimitMemory(w)
       \/ handleLimitDisk(w)
       \/ handleLimitCpu(w)
       \/ handleNetIn(w)
       \/ handleNetOut(w)
       \/ handleRun(w, ShortStreams, {1})
       \/ handleAttach(w, ShortStreams)
       \/ handleInfo(w)
  \/ \E h \in Handles : backgroundStop(h)

Spec == Init /\ [][Next]_vars


\* Run and Attach on one connection, with every backend stream of at most
\* MaxEvents events and a peer that may go away
InitStream == InitServer(1) /\ NoClient

NextStream ==
  \/ Awaiting("w1") /\ \E r \in RunRequests \cup AttachRequests(ProcessIDs) : Dispatch("w1", r)
  \/ handleRun("w1", Streams(MaxEvents), ProcessIDs)
  \/ handleAttach("w1", Streams(MaxEvents))
  \/ BreakConn("w1")

SpecStream == InitStream /\ [][NextStream]_vars

\* one limit request, over the whole field space of the four limit operations
InitLimit == InitServer(1) /\ NoClient

NextLimit ==
  \/ Awaiting("w1") /\ \E r \in LimitRequests : Dispatch("w1", r)
  \/ handleLimitBandwidth("w1")
  \/ handleLimitMemory("w1")
  \/ handleLimitDisk("w1")
  \/ handleLimitCpu("w1")

SpecLimit == InitLimit /\ [][NextLimit]_vars


\* the client's stream handler for one process: every choice of process I/O,
\* every payload sequence of at most MaxFrames payloads, every hijack outcome
InitWait ==
  /\ InitServer(0)
  /\ \E in \in BOOLEAN, io \in [StreamTypes -> BOOLEAN], fs \in PayloadSeqs(MaxFrames) :
       InitClient(in, io, fs)

NextWait ==
  \/ streamIn
  \/ stdinCopy
  \/ \E ok \in BOOLEAN, n \in 0..MaxChunks :
       /\ ~ok => n = 0
       /\ \/ streamOut("stdout", "stdout", "stderr", ok, n)
          \/ streamOut("stderr", "stderr", "wait", ok, n)
  \/ \E t \in StreamTypes : copyStream(t)
  \/ startWait
  \/ wait

SpecWait == InitWait /\ [][NextWait]_vars

\* the stream handler under a fair scheduler: every goroutine that can take a
\* step takes it in the end; the frame stream and the hijacked sources may stall
FewPayloads == {Payload(<<>>, <<>>), Payload(<<"boom">>, <<>>), Payload(<<>>, <<0>>)}
InitWaitFair ==
  /\ InitServer(0)
  /\ \E io \in [StreamTypes -> BOOLEAN],
        fs \in UNION {[1..k -> FewPayloads] : k \in 0..MaxFrames},
        st \in SUBSET (StreamTypes \cup {"frames"}) :
       InitClientWith(FALSE, io, fs, st)

\* the output streams are set up one after the other; a hijacked source holds
\* one chunk or none
setUp ==
  \E ok \in BOOLEAN, n \in 0..1 :
    /\ ~ok => n = 0
    /\ \/ streamOut("stdout", "stdout", "stderr", ok, n)
       \/ streamOut("stderr", "stderr", "wait", ok, n)

NextWaitFair ==
  \/ streamIn
  \/ setUp
  \/ \E t \in StreamTypes : copyStream(t)
  \/ startWait
  \/ wait

SpecWaitFair ==
  /\ InitWaitFair /\ [][NextWaitFair]_vars
  /\ WF_vars(streamIn) /\ WF_vars(setUp) /\ WF_vars(startWait) /\ WF_vars(wait)
  /\ \A t \in StreamTypes : WF_vars(copyStream(t))

\* creates, destroys and lists one after the other on a backend that starts
\* without containers, with lookups of the handles in between: room for a create
\* of every handle, a destroy and a list
InitLife ==
  /\ InitServerWith(Cardinality(Handles) + 2, {}, DefaultProperties, DefaultInfo)
  /\ NoClient

NextLife ==
  \/ /\ Awaiting("w1")
     /\ \E r \in CreateRequests({<<>>}) \cup DestroyRequests \cup ListRequests
                  \cup {Request("CopyOut", h) : h \in Handles} : Dispatch("w1", r)
  \/ handleCreate("w1")
  \/ handleDestroy("w1")
  \/ handleList("w1")
  \/ handleCopyOut("w1")

SpecLife == InitLife /\ [][NextLife]_vars

\* one Info request and the client's decoding of its response, for every
\* container info and property map of the backend
InitInfo ==
  /\ \E pr \in PropertyMaps, i \in BackendInfos : InitServerWith(1, {"c1"}, pr, i)
  /\ NoClient

NextInfo ==
  \/ Awaiting("w1") /\ \E h \in Handles : Dispatch("w1", Request("Info", h))
  \/ handleInfo("w1")
  \/ Info("w1")

SpecInfo == InitInfo /\ [][NextInfo]_vars

\* calls of the client's connection, one after the other, against every response
InitConn == InitServer(0) /\ NoClient

NextConn ==
  \/ \E k \in CallKinds : StartCall(k)
  \/ \E failed \in BOOLEAN : CreateRequest(failed)
  \/ clientDo(TRUE, NoHttp)
  \/ hpc = "send" /\ \E r \in HttpResponses : clientDo(FALSE, r)
  \/ doStream
  \/ do
  \/ doHijack

SpecConn == InitConn /\ [][NextConn]_vars

\* the two flattenings of a property list: one Create on one connection and, on
\* the other, the client's decoding of one InfoResponse, for every property list
\* of at most MaxProps properties
InitProps == InitServerWith(2, {}, DefaultProperties, DefaultInfo) /\ NoClient

NextProps ==
  \/ /\ Awaiting("w1") /\ pc["w1"] = "idle"
     /\ \E hd \in Opt(Handles), pl \in PropertyListsUpTo(MaxProps) :
          Dispatch("w1", [Request("Create", "c1") EXCEPT
                            !.fields = [Handle |-> hd, GraceTime |-> <<>>, Properties |-> pl]])
  \/ handleCreate("w1")
  \/ Awaiting("w2") /\ pc["w2"] = "idle" /\ Dispatch("w2", Request("Info", "c1"))
  \/ \E pl \in PropertyListsUpTo(MaxProps) : PeerInfo("w2", pl)
  \/ Info("w2")

SpecProps == InitProps /\ [][NextProps]_vars

\* two Create requests one after the other, with every grace-time field
InitCreate == InitServerWith(2, {}, DefaultProperties, DefaultInfo) /\ NoClient

NextCreate ==
  \/ Awaiting("w1") /\ \E r \in CreateRequests(GraceTimes) : Dispatch("w1", r)
  \/ handleCreate("w1")

SpecCreate == InitCreate /\ [][NextCreate]_vars

\* one Run or Attach of the client, for every outcome of its hijack and every
\* frame stream of at most MaxFrames payloads, with the task that streams the
\* payloads of the process once it has been started
InitRun ==
  /\ InitServer(0)
  /\ \E r \in ClientCalls, fs \in UNION {[1..k -> RunPayloads] : k \in 0..MaxFrames} :
       /\ InitHandler(FALSE, [t \in StreamTypes |-> FALSE], fs, {}, "unstarted")
       /\ InitConnection(r)

NextRun ==
  \/ Run
  \/ Attach
  \/ \E failed \in BOOLEAN : CreateRequest(failed)
  \/ \E failed \in BOOLEAN : hijackDial(failed)
  \/ hijackDo(TRUE, NoHttp)
  \/ \E r \in HijackResponses : hijackDo(FALSE, r)
  \/ hijackStatus
  \/ streamIn
  \/ setUp
  \/ startWait
  \/ wait

SpecRun == InitRun /\ [][NextRun]_vars

\* ================================================================== claims
IsStream(w) == req[w].kind \in {"Run", "Attach"}
Terminal(w) == resp[w].tag = "ProcessPayload"
\* frames of writes[w] that carry data
DataWrites(w) == SelectSeq(writes[w], LAMBDA f : Present(f.source))
\* index of the first exit event of evs, Len(evs) + 1 when there is none
FirstExit(evs) ==
  IF \E i \in 1..Len(evs) : Present(evs[i].exitStatus)
    THEN CHOOSE i \in 1..Len(evs) :
           /\ Present(evs[i].exitStatus)
           /\ \A j \in 1..(i - 1) : ~Present(evs[j].exitStatus)
    ELSE Len(evs) + 1
SameTag(src, tag) ==
  \/ src = "ProcessStreamSourceStdout" /\ tag = "ProcessPayload_stdout"
  \/ src = "ProcessStreamSourceStderr" /\ tag = "ProcessPayload_stderr"
  \/ src = "ProcessStreamSourceStdin" /\ tag = "ProcessPayload_stdin"

\* C1: wait does not return while a copy task registered by streamOut is still
\* running: when wait has returned, every registered copyStream has finished
\* copying and has left the join barrier.
C1_WaitAfterCopies ==
  wpc = "returned" => (wg = 0 /\ \A t \in StreamTypes : copy[t] \in {"none", "done"})

\* wait has returned an exit status after both output streams were copied
C1_Witness ==
  /\ wpc = "returned" /\ result.err = NoErr
  /\ \A t \in StreamTypes : copy[t] = "done" /\ sink[t] = MaxChunks

\* C2: once the handler of a Run or Attach has produced the terminal (exit-status)
\* frame, no further frame is written to the connection: events the backend
\* stream holds after the exit event are never sent.
C2_NoFrameAfterTerminal ==
  [][\A w \in Workers :
       (IsStream(w) /\ Terminal(w)) => (writes'[w] = writes[w] /\ conn'[w] = conn[w])]_vars

\* a handler has returned the terminal frame while the backend stream still
\* held events after the exit event
C2_Witness ==
  \E w \in Workers :
    /\ IsStream(w) /\ pc[w] = "done" /\ Terminal(w)
    /\ Len(stream[w]) > 1
    /\ DataWrites(w) # <<>>

\* C3: every Run or Attach whose backend call succeeded ends with exactly one
\* terminal frame carrying the exit status, whatever the backend stream holds.
C3_AlwaysTerminalFrame ==
  \A w \in Workers :
    (IsStream(w) /\ pc[w] = "done" /\ resp[w].tag # "error")
      => (Terminal(w) /\ Present(resp[w].frame.exitStatus))

\* C4: the data frames written are, in order, one per non-exit event the backend
\* yielded before its first exit event, with the same source tag and data; they
\* are all written before the terminal frame, and they are the frames on the
\* connection as long as the connection accepts writes.
C4_FramesFollowEvents ==
  \A w \in Workers :
    IsStream(w) =>
      LET dw == DataWrites(w)
          n  == FirstExit(events[w]) - 1
      IN  /\ Len(dw) <= n
          /\ \A i \in 1..Len(dw) :
               /\ SameTag(events[w][i].source, dw[i].source[1])
               /\ dw[i].data = <<events[w][i].data>>
               /\ dw[i].processId = pid[w]
               /\ ~Present(dw[i].exitStatus)
          /\ (resp[w].tag \in {"ProcessPayload", "nil"}) => Len(dw) = n
          /\ connOk[w] => conn[w] = writes[w]

\* a stdin event and a stderr event followed by an exit were relayed
C4_Witness ==
  \E w \in Workers :
    /\ IsStream(w) /\ pc[w] = "done" /\ Terminal(w)
    /\ Len(events[w]) = FirstExit(events[w])
    /\ Len(DataWrites(w)) = 2
    /\ DataWrites(w)[1].source = <<"ProcessPayload_stdin">>
    /\ DataWrites(w)[2].source = <<"ProcessPayload_stderr">>
    /\ DataWrites(w)[1].data # DataWrites(w)[2].data

\* C5 (as claimed): for both Run and Attach the first frame on the connection is
\* an initial frame carrying the process ID, before any data or terminal frame.
C5_InitialFrameFirst ==
  \A w \in Workers :
    (IsStream(w) /\ (writes[w] # <<>> \/ Terminal(w)))
      => (writes[w] # <<>> /\ writes[w][1] = InitialFrame(pid[w]))

\* C5 (amended): Run writes an initial frame carrying the assigned process ID
\* before any data frame and before the terminal frame; Attach writes no initial
\* frame: every frame it writes is a data frame, and data and terminal frames
\* carry the attached process ID.
C5_InitialFrameRunOnly ==
  \A w \in Workers :
    /\ (req[w].kind = "Run" /\ (writes[w] # <<>> \/ resp[w].tag \in {"ProcessPayload", "nil"}))
         => (/\ writes[w] # <<>>
             /\ writes[w][1] = InitialFrame(pid[w])
             /\ \A i \in 2..Len(writes[w]) : Present(writes[w][i].source))
    /\ req[w].kind = "Attach"
         => (/\ \A i \in 1..Len(writes[w]) :
                  Present(writes[w][i].source) /\ writes[w][i].processId = req[w].pid
             /\ Terminal(w) => resp[w].frame.processId = req[w].pid)

\* a Run has written its initial frame, a data frame and returned the terminal frame
C5_Witness ==
  \E w \in Workers :
    /\ req[w].kind = "Run" /\ pc[w] = "done" /\ Terminal(w)
    /\ Len(writes[w]) >= 2

LimitKinds == {"LimitBandwidth", "LimitMemory", "LimitDisk", "LimitCpu"}
LimitOf(k) == CASE k = "LimitBandwidth" -> "bandwidth" [] k = "LimitMemory" -> "memory"
                [] k = "LimitDisk" -> "disk" [] k = "LimitCpu" -> "cpu"
NoFieldPresent(r) ==
  CASE r.kind = "LimitBandwidth" -> ~Present(r.fields.Rate) /\ ~Present(r.fields.Burst)
    [] r.kind = "LimitMemory" -> ~Present(r.fields.LimitInBytes)
    [] r.kind = "LimitCpu" -> ~Present(r.fields.LimitInShares)
    [] r.kind = "LimitDisk" -> r.fields = NoDiskFields

\* C6: for each of the four limit operations a request with no limit field is a
\* pure read: the Limit* mutator is not called, the container's limits stay what
\* they were and the response carries them.
C6_NoFieldIsPureRead ==
  \A w \in Workers :
    (req[w].kind \in LimitKinds /\ NoFieldPresent(req[w]))
      => /\ limitArg[w] = <<>>
         /\ limits[req[w].handle] = snap[w]
         /\ (pc[w] = "done" /\ resp[w].tag \notin {"error", "none"})
              => resp[w].limits = snap[w][LimitOf(req[w].kind)]

\* the value the precedence of the claim gives a hard limit
Precedence(limit, bare, hard) ==
  IF Present(limit) THEN limit[1] ELSE IF Present(bare) THEN bare[1]
  ELSE IF Present(hard) THEN hard[1] ELSE 0

\* C7: the hard limits handleLimitDisk passes to the backend follow the
\* precedence <x>_limit, then bare <x>, then <x>_hard (0 when absent), and the
\* soft limits are the soft fields, whatever aliases are present.
C7_DiskAliasPrecedence ==
  \A w \in Workers :
    (req[w].kind = "LimitDisk" /\ limitArg[w] # <<>>) =>
      LET f == req[w].fields
          a == limitArg[w][1]
      IN  /\ a.blockHard = Precedence(f.BlockLimit, f.Block, f.BlockHard)
          /\ a.inodeHard = Precedence(f.InodeLimit, f.Inode, f.InodeHard)
          /\ a.byteHard = Precedence(f.ByteLimit, f.Byte, f.ByteHard)
          /\ a.blockSoft = (IF Present(f.BlockSoft) THEN f.BlockSoft[1] ELSE 0)
          /\ a.inodeSoft = (IF Present(f.InodeSoft) THEN f.InodeSoft[1] ELSE 0)
          /\ a.byteSoft = (IF Present(f.ByteSoft) THEN f.ByteSoft[1] ELSE 0)

\* LimitDisk was called for a request carrying all three aliases of the block
\* limit with different values, and soft limits next to aliases
C7_Witness ==
  \E w \in Workers :
    /\ req[w].kind = "LimitDisk" /\ limitArg[w] # <<>>
    /\ req[w].fields.BlockLimit = <<14>> /\ req[w].fields.Block = <<13>>
    /\ req[w].fields.BlockHard = <<12>> /\ req[w].fields.BlockSoft = <<11>>
    /\ req[w].fields.Inode = <<23>> /\ req[w].fields.InodeHard = <<22>>
    /\ ~Present(req[w].fields.InodeLimit)

ContainerOps == {"CopyOut", "Stop", "CopyIn", "LimitBandwidth", "CurrentBandwidthLimits",
                 "LimitMemory", "CurrentMemoryLimits", "LimitDisk", "CurrentDiskLimits",
                 "LimitCPU", "CurrentCPULimits", "NetIn", "NetOut", "Run", "Attach", "Info"}
Count(seq, x) == Cardinality({i \in 1..Len(seq) : seq[i] = x})

\* C8: a handler whose Lookup succeeded calls Pause before any operation of the
\* container, and by the time it has returned it has called Unpause exactly
\* once, after everything else, whether the operation failed or not.
C8_PauseBeforeUnpauseAfter ==
  \A w \in Workers :
    LET c == calls[w] IN
    /\ \A i \in 1..Len(c) :
         c[i] \in ContainerOps => \E j \in 1..(i - 1) : c[j] = "Pause"
    /\ \A i \in 1..Len(c) : c[i] = "Unpause" => i = Len(c)
    /\ Count(c, "Pause") <= 1
    /\ (pc[w] = "done" /\ resp[w] # ErrorResponse("ContainerNotFound"))
         => (Count(c, "Pause") = 1 /\ Count(c, "Unpause") = 1)
    /\ (pc[w] = "done" /\ resp[w] = ErrorResponse("ContainerNotFound"))
         => c = <<"Lookup">>

\* a handler has returned the error of its container operation
C8_Witness ==
  \E w \in Workers :
    /\ pc[w] = "done" /\ resp[w] = ErrorResponse("backend error")
    /\ Count(calls[w], "Unpause") = 1
    /\ \E i \in 1..Len(calls[w]) : calls[w][i] \in ContainerOps

\* C9: while an operation on a container is in flight, the eviction timer of
\* the container is paused.
C9_PausedWhileInFlight ==
  \A h \in containers : InFlight(h) > 0 => timer[h] = "paused"

\* C10: once no handler holds a handle any more, its eviction timer is running
\* and Unpause has been called as often as Pause.
C10_BalancedWhenReturned ==
  \A h \in Handles :
    (\A w \in Workers : req[w].handle = h => pc[w] \notin Holding)
      => (pauses[h] = unpauses[h] /\ (h \in containers => timer[h] = "running"))

\* two handlers have overlapped on one handle and both have returned
C10_Witness ==
  \E h \in containers :
    /\ overlapped[h]
    /\ pauses[h] = 2
    /\ \A w \in Workers : req[w].handle = h /\ pc[w] = "done"

\* the container info the backend's values for container h amount to
OriginalInfo(h) ==
  [f \in DOMAIN infos[h] \cup {"Properties"} |->
     IF f = "Properties" THEN props[h] ELSE infos[h][f]]

\* C11: the container info the client's Info returns for the response of
\* handleInfo equals, field for field, what the backend produced: state, events,
\* the three IP addresses, container path, process IDs, properties, mapped ports
\* and the four stat blocks.
C11_InfoRoundTrip ==
  \A w \in Workers :
    cinfo[w].tag = "ContainerInfo" => cinfo[w].info = OriginalInfo(req[w].handle)

PerContainerKinds ==
  {"CopyOut", "Stop", "CopyIn", "LimitBandwidth", "LimitMemory", "LimitDisk", "LimitCpu",
   "NetIn", "NetOut", "Run", "Attach", "Info"}
\* the container made with property list l has value v for key k
CreatedWith(l, k, v) ==
  \E i \in DOMAIN l :
    /\ l[i].Key = k /\ l[i].Value = v
    /\ \A j \in (i + 1)..Len(l) : l[j].Key # k
\* handles created and not destroyed since whose properties have every pair of filter
LiveMatching(filter) ==
  {h \in Handles :
     /\ live[h].state = "live"
     /\ \A i \in DOMAIN filter :
          CreatedWith(live[h].properties, filter[i].Key, filter[i].Value)}

\* C12: after any sequence of Create and Destroy requests a List answers with
\* exactly the handles that were created, not destroyed since, and whose
\* properties hold every key/value pair of the filter, each handle once; and a
\* per-container handler given a handle that is not live (never created, or
\* destroyed) fails with the backend's not-found error.
C12_ListIsLiveAndMatching ==
  \A w \in Workers :
    /\ (req[w].kind = "List" /\ pc[w] = "done" /\ resp[w].tag = "ListResponse")
         => LET hs == resp[w].handles IN
            /\ {hs[i] : i \in DOMAIN hs} = LiveMatching(req[w].fields.Properties)
            /\ \A i, j \in DOMAIN hs : hs[i] = hs[j] => i = j
    /\ (req[w].kind \in PerContainerKinds /\ pc[w] = "done"
          /\ live[req[w].handle].state # "live")
         => resp[w] = ErrorResponse("ContainerNotFound")

\* after a create of each handle and the destroy of one, a List with a filter
\* has answered with the other handle alone
C12_Witness ==
  /\ req["w1"].kind = "List" /\ pc["w1"] = "done"
  /\ req["w1"].fields.Properties # <<>>
  /\ resp["w1"] = [tag |-> "ListResponse", handles |-> <<"c2">>]
  /\ live["c1"].state = "destroyed"

\* C13: a per-container handler whose Lookup fails returns the Lookup error and
\* does nothing else: it calls no container operation, writes no frame, spawns
\* nothing and calls neither Pause nor Unpause.
C13_LookupFailureDoesNothing ==
  \A w \in Workers :
    (req[w].kind \in PerContainerKinds /\ req[w].handle \notin containers)
      => /\ pc[w] \in {"lookup", "done"}
         /\ writes[w] = <<>> /\ conn[w] = <<>>
         /\ pauses[req[w].handle] = 0 /\ unpauses[req[w].handle] = 0
         /\ bgStops[req[w].handle] = [spawned |-> 0, running |-> 0]
         /\ pc[w] = "done"
              => (resp[w] = ErrorResponse("ContainerNotFound") /\ calls[w] = <<"Lookup">>)

\* a Run and a background Stop of a handle the backend does not know have both
\* returned
C13_Witness ==
  /\ req["w1"].kind = "Run" /\ req["w1"].handle \notin containers /\ pc["w1"] = "done"
  /\ req["w2"].kind = "Stop" /\ req["w2"].background
  /\ req["w2"].handle \notin containers /\ pc["w2"] = "done"

\* a do or doStream call has returned after it received a response
Answered == hpc = "returned" /\ hkind \in {"do", "doStream"} /\ http # NoHttp
Success(status) == status \in 200..299

\* C14 (as claimed): for do and doStream every response with a status outside
\* 200-299 yields an Error with that status and the full body as message and no
\* stream; every status within 200-299 yields the body and no error.
C14_StatusDecidesResult ==
  Answered =>
    IF Success(http.status)
      THEN /\ hres.err = Nil
           /\ hkind = "doStream" => hres.stream = <<http.body>>
           /\ hkind = "do" => hres.res = <<http.body>>
      ELSE /\ hres.err = Error(http.status, http.body)
           /\ hres.stream = <<>> /\ hres.res = <<>>

\* C14 (amended): a status outside 200-299 yields no stream and no result, and
\* the Error with that status and the full body as message when the body could
\* be read, a plain "bad response" error naming the status when reading it
\* failed; a status within 200-299 yields the body stream and no error from
\* doStream, and from do the decoded body and no error, or the decoder's error
\* when the body does not decode.
C14_StatusAndBodyDecideResult ==
  Answered =>
    IF Success(http.status)
      THEN /\ hkind = "doStream" => (hres.err = Nil /\ hres.stream = <<http.body>>)
           /\ (hkind = "do" /\ http.body \in JSONBodies)
                => (hres.err = Nil /\ hres.res = <<http.body>>)
           /\ (hkind = "do" /\ http.body \notin JSONBodies)
                => (hres.err = Failure("Decode") /\ hres.res = <<>>)
      ELSE /\ hres.stream = <<>> /\ hres.res = <<>>
           /\ http.readable => hres.err = Error(http.status, http.body)
           /\ ~http.readable => hres.err = BadResponse(http.status)

\* a doStream call got status 199 with a body and returned the Error
C14_Witness ==
  /\ Answered /\ hkind = "doStream"
  /\ http.status = 199 /\ http.body # ""
  /\ hres.err = Error(199, http.body)

\* C15: doHijack fails the whole call, with no connection and no reader, for
\* every handshake status outside 200-299; and the connection a hijack runs on
\* was dialed for that call and is used by no other call, whether the handshake
\* succeeded or failed.
C15_HijackFailsAndIsDedicated ==
  /\ (hpc = "returned" /\ hkind = "doHijack" /\ http # NoHttp /\ ~Success(http.status))
       => (hres.err # Nil /\ hres.conn = <<>> /\ hres.br = <<>>)
  /\ \A c \in DOMAIN users : \A u \in users[c] :
       u.kind = "doHijack" => users[c] = {u}
  /\ (hkind = "doHijack" /\ hconn # 0) => users[hconn] = {[call |-> hnum, kind |-> hkind]}

\* after a hijack whose handshake succeeded, a second hijack got status 404 and
\* failed; each ran on a connection of its own
C15_Witness ==
  /\ hpc = "returned" /\ hkind = "doHijack" /\ hnum = 2
  /\ http.status = 404 /\ hres.err = BadResponse(404)
  /\ users[1] = {[call |-> 1, kind |-> "doHijack"]}
  /\ users[2] = {[call |-> 2, kind |-> "doHijack"]}

\* index of the first payload of fs that fails to decode or carries an error or
\* an exit status; Len(fs) + 1 when there is none and the decoder runs dry
Deciding(fs) ==
  IF \E i \in DOMAIN fs : fs[i].bad \/ Present(fs[i].error) \/ Present(fs[i].exitStatus)
    THEN CHOOSE i \in DOMAIN fs :
           /\ fs[i].bad \/ Present(fs[i].error) \/ Present(fs[i].exitStatus)
           /\ \A j \in 1..(i - 1) :
                ~(fs[j].bad \/ Present(fs[j].error) \/ Present(fs[j].exitStatus))
    ELSE Len(fs) + 1

\* C16: what wait returns is decided by the first payload that fails to decode
\* or carries an error or an exit status: a decode failure gives the decode
\* error, a payload with an error gives the process error with the payload's
\* message, a payload with an exit status gives that status and no error; the
\* payloads before it, which carry neither, change nothing.
C16_FirstDecidingFrame ==
  wpc = "returned" =>
    LET i == Deciding(input) IN
    IF i > Len(input) \/ input[i].bad
      THEN result = [status |-> 0, err |-> "connection: decode failed"]
    ELSE IF Present(input[i].error)
      THEN result = [status |-> 0, err |-> "connection: process error",
                     msg |-> input[i].error[1]]
    ELSE result = [status |-> input[i].exitStatus[1], err |-> NoErr]

\* wait has discarded a payload without error and exit status and returned the
\* exit status of the payload after it
C16_Witness ==
  /\ wpc = "returned"
  /\ input = <<Payload(<<>>, <<>>), Payload(<<>>, <<3>>)>>
  /\ result = [status |-> 3, err |-> NoErr]

\* C17: when wait returns the exit code, both background tasks of the process
\* have completed: the decoding of frames, and the stdin copy started by streamIn.
C17_TasksDoneBeforeExitCode ==
  (wpc = "returned" /\ result.err = NoErr)
    => (wpc # "loop" /\ stdinTask \in {"none", "done"})

\* a frame handed to WriteTo did not reach the connection: the write failed
WriteFailed(w) == Len(writes[w]) > Len(conn[w])

\* C18: once a write of a frame has failed during the streaming of a Run or
\* Attach, the handler hands no further frame to the connection and takes no
\* further event from the backend's stream.
C18_AbortOnWriteFailure ==
  [][\A w \in Workers :
       (IsStream(w) /\ WriteFailed(w))
         => (writes'[w] = writes[w] /\ stream'[w] = stream[w])]_vars

\* the backend call of the Run or Attach of worker w has returned an error
BackendCallFailed(w) ==
  /\ IsStream(w)
  /\ \E i \in DOMAIN calls[w] : calls[w][i] \in {"Run", "Attach"}
  /\ pc[w] \notin {"in_Run", "in_Attach"}
  /\ pid[w] = 0

\* C19: when container.Run or container.Attach returns an error, the handler
\* returns that error as its response and writes no frame: no initial, no data and
\* no terminal frame; all it still does is the deferred Unpause.
C19_BackendErrorWritesNothing ==
  \A w \in Workers :
    BackendCallFailed(w)
      => /\ resp[w] = ErrorResponse("backend error")
         /\ writes[w] = <<>> /\ conn[w] = <<>>
         /\ pc[w] \in {"defer", "done"}

\* a Run whose backend call failed has returned
C19_Witness ==
  \E w \in Workers :
    /\ req[w].kind = "Run" /\ pc[w] = "done"
    /\ calls[w] = <<"Lookup", "Pause", "Run", "Unpause">>
    /\ resp[w] = ErrorResponse("backend error")

\* C20: a Stop with background=false has no response before container.Stop has
\* returned, and its response is Stop's error or, without error, the
\* StopResponse; a Stop with background=true never waits in container.Stop: it
\* leaves Stop to a separate task and responds with the StopResponse whatever
\* becomes of that task.
C20_StopWaitsUnlessBackground ==
  \A w \in Workers :
    (req[w].kind = "Stop" /\ req[w].handle \in containers) =>
      IF req[w].background
        THEN /\ pc[w] # "in_Stop"
             /\ \A i \in DOMAIN calls[w] : calls[w][i] # "Stop"
             /\ pc[w] \in {"defer", "done"} => resp[w] = [tag |-> "StopResponse"]
        ELSE /\ resp[w] # NoResponse
                  => (/\ pc[w] \in {"defer", "done"}
                      /\ \E i \in DOMAIN calls[w] : calls[w][i] = "Stop"
                      /\ resp[w] \in {[tag |-> "StopResponse"],
                                      ErrorResponse("backend error")})
             /\ pc[w] = "done" => calls[w] = <<"Lookup", "Pause", "Stop", "Unpause">>

\* a background Stop has been answered while its container.Stop is still
\* running, and a Stop without background has been answered with Stop's error
C20_Witness ==
  /\ req["w1"].kind = "Stop" /\ req["w1"].background /\ pc["w1"] = "done"
  /\ resp["w1"] = [tag |-> "StopResponse"]
  /\ bgStops[req["w1"].handle].running = 1
  /\ req["w2"].kind = "Stop" /\ ~req["w2"].background /\ pc["w2"] = "done"
  /\ resp["w2"] = ErrorResponse("backend error")

\* the handler of worker w is past the "if settingLimit" of handleLimitDisk
PastSetting(w) ==
  /\ req[w].kind = "LimitDisk" /\ req[w].handle \in containers
  /\ pc[w] \in {"in_limit", "current", "in_current", "defer", "done"}
\* one of the fields of the request is present
AnyFieldPresent(f) == \E name \in DOMAIN f : Present(f[name])

\* C22: once its Lookup has succeeded, handleLimitDisk calls the backend's
\* LimitDisk if and only if at least one of the twelve limiting fields of the
\* request is present; when none is present the only container operation it
\* calls is CurrentDiskLimits and the limits stay what they were.
C22_LimitDiskIffFieldPresent ==
  \A w \in Workers :
    PastSetting(w) =>
      /\ Count(calls[w], "LimitDisk") = (IF AnyFieldPresent(req[w].fields) THEN 1 ELSE 0)
      /\ limitArg[w] # <<>> <=> AnyFieldPresent(req[w].fields)
      /\ ~AnyFieldPresent(req[w].fields)
           => /\ \A i \in DOMAIN calls[w] :
                   calls[w][i] \in ContainerOps => calls[w][i] = "CurrentDiskLimits"
              /\ limits[req[w].handle] = snap[w]
              /\ pc[w] = "done" => Count(calls[w], "CurrentDiskLimits") = 1

\* a request whose only field is the alias byte_limit with value 0 has made the
\* handler call LimitDisk and then CurrentDiskLimits
C22_Witness ==
  \E w \in Workers :
    /\ PastSetting(w) /\ pc[w] = "done"
    /\ req[w].fields = [NoDiskFields EXCEPT !.ByteLimit = <<0>>]
    /\ calls[w] = <<"Lookup", "Pause", "LimitDisk", "CurrentDiskLimits", "Unpause">>

\* map m has one entry per key of list l, with the value of the key's last occurrence
LastWins(m, l) ==
  /\ DOMAIN m = {GetString(l[i].Key) : i \in DOMAIN l}
  /\ \A i \in DOMAIN l :
       (\A j \in (i + 1)..Len(l) : l[j].Key # l[i].Key)
         => m[GetString(l[i].Key)] = GetString(l[i].Value)

\* C23: flattening a property list into a map keeps one entry per key and, for a
\* key that occurs more than once, the value of its last occurrence: in the
\* properties the client's Info returns for the property list of the response,
\* and in the properties handleCreate passes to the backend for the list of the
\* request.
C23_LastWriteWins ==
  \A w \in Workers :
    /\ (cinfo[w].tag = "ContainerInfo" /\ resp[w].tag = "InfoResponse")
         => LastWins(cinfo[w].info.Properties, resp[w].msg.Properties)
    /\ (req[w].kind = "Create" /\ resp[w].tag = "CreateResponse")
         => LastWins(props[resp[w].handle], req[w].fields.Properties)

\* a Create and an Info have each flattened a list in which the key k1 occurs
\* first and last with different values and another key in between
C23_Witness ==
  LET l == <<[Key |-> <<"k1">>, Value |-> <<"a">>], [Key |-> <<"k2">>, Value |-> <<"a">>],
             [Key |-> <<"k1">>, Value |-> <<"b">>]>>
  IN  /\ req["w1"].kind = "Create" /\ pc["w1"] = "done" /\ resp["w1"].tag = "CreateResponse"
      /\ req["w1"].fields.Properties = l
      /\ props[resp["w1"].handle] = [k \in {"k1", "k2"} |-> IF k = "k1" THEN "b" ELSE "a"]
      /\ cinfo["w2"].tag = "ContainerInfo" /\ resp["w2"].msg.Properties = l
      /\ cinfo["w2"].info.Properties = props[resp["w1"].handle]

\* the output streams whose hijack succeeded and whose copyStream has not finished
Registered == {t \in StreamTypes : hijacked[t] = "ok" /\ copy[t] # "done"}

\* C24: the counter of the join barrier is never negative and equals the number
\* of output streams whose hijack succeeded and whose copy task has not yet
\* finished: a nil sink makes no hijack and registers nothing, a failed hijack
\* registers nothing and makes streamOut fail, and copyStream takes its stream
\* out of the count once, whether the copy ended at the end of the source or
\* before it.
C24_CounterIsRunningCopies ==
  /\ wg >= 0
  /\ wg = Cardinality(Registered)
  /\ \A t \in StreamTypes :
       /\ ~sinks[t] => (hijacked[t] = "none" /\ copy[t] = "none")
       /\ hijacked[t] = "failed" => (copy[t] = "none" /\ drv = "failed")
       /\ hijacked[t] = "none" => copy[t] = "none"

\* the copy of stdout has ended before the end of its source and has left the
\* barrier, while the copy of stderr is still registered
C24_Witness ==
  /\ hijacked = [t \in StreamTypes |-> "ok"]
  /\ copy["stdout"] = "done" /\ source["stdout"] > 0
  /\ copy["stderr"] = "copying"
  /\ wg = 1

\* the frame stream yields a payload with an error or an exit status, or fails
\* to decode, in the end
FramesDecide == Deciding(input) <= Len(input) \/ "frames" \notin stalls

C25_HeldBack ==
  /\ wpc = "wgwait" /\ pending.err = NoErr
  /\ Registered \cap stalls # {}

\* the handler of worker w has called Unpause
Unpaused(w) == \E i \in DOMAIN calls[w] : calls[w][i] = "Unpause"

\* C26: during a Run or Attach the eviction timer stays paused for the whole
\* stream: while the handler writes the first frame and relays events it has not
\* called Unpause, and the timer of its container is paused unless another
\* handler has held the same container meanwhile; and when Unpause has been
\* called after a stream, streamProcessToConnection has returned: every data
\* event before the first exit event has been written as a frame and the
\* backend's channel is at an exit event or closed and drained.
C26_PausedForWholeStream ==
  \A w \in Workers :
    IsStream(w) =>
      /\ pc[w] \in Streaming
           => /\ ~Unpaused(w)
              /\ ~overlapped[req[w].handle] => timer[req[w].handle] = "paused"
      /\ (Unpaused(w) /\ ~BackendCallFailed(w))
           => /\ stream[w] = <<>> \/ Present(Head(stream[w]).exitStatus)
              /\ resp[w].tag \in {"ProcessPayload", "nil"}
              /\ Len(DataWrites(w)) = FirstExit(events[w]) - 1

\* an Attach has relayed two data events, the backend has closed the channel
\* without an exit status, and only then has the handler called Unpause
C26_Witness ==
  \E w \in Workers :
    /\ req[w].kind = "Attach" /\ pc[w] = "done" /\ resp[w].tag = "nil"
    /\ Len(events[w]) = 2 /\ Len(DataWrites(w)) = 2
    /\ calls[w] = <<"Lookup", "Pause", "Attach", "Unpause">>
    /\ timer[req[w].handle] = "running"

\* a handler is between the success of the backend's Create of h and its Strap,
\* or between the success of the backend's Destroy of h and its Defuse
StrapPending(h) ==
  \E w \in Workers : req[w].kind = "Create" /\ pc[w] = "strap" /\ resp[w].handle = h
DefusePending(h) ==
  \E w \in Workers : req[w].kind = "Destroy" /\ pc[w] = "defuse" /\ req[w].handle = h

\* C27: the eviction timer of a container is strapped if and only if the
\* backend's Create succeeded, and defused if and only if the backend's Destroy
\* succeeded: a handle has a timer exactly when it was created and not destroyed
\* since; a failed Create calls nothing after Create and returns the error, a
\* failed Destroy calls nothing after Destroy and returns the error; and neither
\* handler calls Pause or Unpause.
C27_StrapAndDefuseFollowBackend ==
  /\ \A h \in Handles :
       timer[h] # "none"
         <=> ((live[h].state = "live" /\ ~StrapPending(h)) \/ DefusePending(h))
  /\ \A w \in Workers :
       /\ (req[w].kind = "Create" /\ pc[w] = "done")
            => /\ resp[w].tag \in {"CreateResponse", "error"}
               /\ calls[w] = (IF resp[w].tag = "error" THEN <<"Create">>
                              ELSE <<"Create", "Strap">>)
       /\ (req[w].kind = "Destroy" /\ pc[w] = "done")
            => /\ resp[w].tag \in {"DestroyResponse", "error"}
               /\ calls[w] = (IF resp[w].tag = "error" THEN <<"Destroy">>
                              ELSE <<"Destroy", "Defuse">>)
       /\ req[w].kind \in {"Create", "Destroy"}
            => \A i \in DOMAIN calls[w] : calls[w][i] \notin {"Pause", "Unpause"}

\* the Destroy of a container that had been created has failed in the backend:
\* the error is returned and the timer of the container is still there
C27_Witness ==
  \E w \in Workers :
    /\ req[w].kind = "Destroy" /\ pc[w] = "done"
    /\ resp[w] = ErrorResponse("backend error")
    /\ live[req[w].handle].state = "live"
    /\ timer[req[w].handle] = "running"

\* C28: handleCreate passes the server's default grace time to the backend
\* exactly when the request carries no grace-time field; when the field is
\* present, also with the value 0, the backend receives that number of seconds.
C28_DefaultGraceTimeOnlyWhenAbsent ==
  \A w \in Workers :
    (req[w].kind = "Create" /\ resp[w].tag = "CreateResponse") =>
      LET g == req[w].fields.GraceTime
          passed == graceTimes[resp[w].handle]
      IN  /\ g = <<>> => passed = containerGraceTime
          /\ g # <<>> => passed = [seconds |-> g[1]]
          /\ passed = containerGraceTime <=> g = <<>>

\* a container has been created for a request whose grace-time field is 0
C28_Witness ==
  \E w \in Workers :
    /\ req[w].kind = "Create" /\ pc[w] = "done" /\ resp[w].tag = "CreateResponse"
    /\ req[w].fields.GraceTime = <<0>>
    /\ graceTimes[resp[w].handle] = [seconds |-> 0]

\* payloads the decoder has yielded so far
Consumed == Len(input) - Len(frames)
\* the hijack of the Run or Attach went through
Hijacked == cpc \notin {"write", "hijack", "in_hijack"} /\ hres.err = Nil
\* the task that streams the payloads of the process has been started
StreamingStarted == drv # "unstarted"

\* C21: the process handle Run returns has the process ID of the first payload of
\* the response stream, and that payload is consumed before the task that streams
\* the payloads is started; the handle Attach returns has the process ID the
\* caller gave, and Attach consumes no payload; when the first payload of a Run
\* cannot be decoded, Run returns an error and no handle, and starts no task.
C21_ProcessIDOfHandle ==
  /\ (creq.kind = "Run" /\ cpc = "returned" /\ proc.err = Nil)
       => /\ input # <<>> /\ ~input[1].bad
          /\ proc.process = <<newProcess(input[1].processId, hres.conn)>>
          /\ StreamingStarted
  /\ creq.kind = "Run"
       => IF StreamingStarted THEN Consumed >= 1 /\ proc.err = Nil
          ELSE Consumed = (IF cpc = "spawn" THEN 1 ELSE 0)
  /\ (creq.kind = "Run" /\ Hijacked /\ cpc = "returned" /\ (input = <<>> \/ input[1].bad))
       => (proc.err # Nil /\ proc.process = <<>> /\ ~StreamingStarted)
  /\ (creq.kind = "Attach" /\ cpc = "returned" /\ proc.err = Nil)
       => (proc.process = <<newProcess(creq.pid, hres.conn)>> /\ StreamingStarted)
  /\ (creq.kind = "Attach" /\ ~StreamingStarted) => Consumed = 0
  /\ (cpc = "returned" /\ proc.err # Nil) => (proc.process = <<>> /\ ~StreamingStarted)

\* a Run has returned the handle of process 2, named by the first payload, and
\* the streaming task has since decoded the exit status of the second payload
C21_Witness ==
  /\ creq.kind = "Run" /\ cpc = "returned"
  /\ input = <<RunPayload(2, <<>>, <<>>), RunPayload(1, <<>>, <<0>>)>>
  /\ proc = [err |-> Nil, process |-> <<newProcess(2, <<1>>)>>]
  /\ wpc = "returned" /\ result = [status |-> 0, err |-> NoErr]

====
